---- MODULE Spec2Model ----
(***************************************************************************)
(* Verification model of the WebRTC stack of this repository.              *)
(*                                                                         *)
(*   Spec      one RtcPeerConnection driven through its public API         *)
(*             (rtc/rtc_peer_connection.rs, ice/agent.rs,                   *)
(*             ice/connectivity.rs, rtc/rtc_dtls.rs, rtc/sdp_negotiation.rs)*)
(*   SpecPair  the candidate-pair priority computation as a pure function  *)
(*   SpecIce   two agents on loopback running perform_connectivity_check   *)
(*             against each other, with the socket listener threads        *)
(*   SpecSdp   sdp_helper.rs: an agent rendered to SDP text and parsed back *)
(*   SpecNeg   the offer/answer exchange between two connections           *)
(*   SpecRx    the video path: RtcRtpSender, datagrams in any order,       *)
(*             RtpReceiverThread with its JitterBuffer                     *)
(*   SpecJb    the JitterBuffer under any sequence of push and pop         *)
(*   SpecSrtp  crypto/srtp.rs: protect and unprotect of one payload        *)
(*   SpecSend  the RtpSenderThread loop and its two error counters         *)
(*   SpecRtcp  the RtcpReporterThread loop                                 *)
(*   SpecStop  the threads of a call, their channels and stop_media;       *)
(*             SpecStopFair adds the scheduling of the threads             *)
(*   SpecCall  the inactivity watch of VideoCall::update                   *)
(*   SpecFile  the file transfer over SCTP between two clients             *)
(*   SpecLock  the PeerConnection mutex, the sctp_incoming mutex and the   *)
(*             bounded channel between pump, UI and file sender            *)
(*   SpecInbound  the inbound RTP path from listener start-up to the       *)
(*             jitter buffer                                               *)
(*   SpecListen  the PeerSocket listener sorting inbound datagrams         *)
(*   SpecStamp the RTP timestamps of an RtcRtpSender whose socket can fail *)
(*   SpecXfer  the bytes of one accepted file transfer, from the sender    *)
(*             thread over SCTP streams 2 and 1 to the receiver's file     *)
(*   SpecServer  the signalling server: its four locked maps and one       *)
(*             handle_client thread per connection                         *)
(***************************************************************************)
EXTENDS Integers, Sequences, FiniteSets, TLC

(***************************************************************************)
(* Bounds.  Candidate priorities are u32 and pair priorities u64 in the    *)
(* source; the model keeps the 1:2 width ratio on PrioBits-bit words.      *)
(***************************************************************************)
PrioBits == 4
MaxRemote == 1
MaxElapsed == 2
MaxChecks == 2

\* Option<T>: None is the empty sequence, Some(x) the one-element sequence
None == <<>>
Some(x) == <<x>>

Min(a, b) == IF a < b THEN a ELSE b
Max(a, b) == IF a > b THEN a ELSE b

(***************************************************************************)
(* ice/gathering.rs                                                        *)
(***************************************************************************)
CandidateType == {"Host", "Srflx", "Relay"}

\* match candidate_type { Host => 126, Srflx => 100, Relay => 0 }, scaled to
\* two bits: the order Host > Srflx > Relay is what the source relies on.
type_pref(candidate_type) ==
    CASE candidate_type = "Host" -> 2
      [] candidate_type = "Srflx" -> 1
      [] OTHER -> 0

\* (1 << 24) * type_pref + (1 << 8) * local_pref + (256 - 1), on PrioBits bits:
\* the type preference in the top two bits, local_pref and the component term
\* below it.
calculate_priority(candidate_type, local_pref) ==
    (2 ^ (PrioBits - 2)) * type_pref(candidate_type) + 2 * local_pref + 1

create_host_candidate(idx, address, port) ==
    [name |-> <<"host", idx>>, address |-> address, port |-> port,
     candidate_type |-> "Host", priority |-> calculate_priority("Host", 1)]

create_srflx_candidate(idx, address, port) ==
    [name |-> <<"srflx", idx>>, address |-> address, port |-> port,
     candidate_type |-> "Srflx", priority |-> calculate_priority("Srflx", 1)]

(***************************************************************************)
(* ice/connectivity.rs: pair priority and the stable descending sort       *)
(***************************************************************************)
\* let priority = (1u64 << 32) * min_priority + 2 * max_priority
\*                + if g > d { 1 } else { 0 };   (u64 arithmetic)
PairPriorityOf(g, d) ==
    ((2 ^ PrioBits) * Min(g, d) + 2 * Max(g, d) + (IF g > d THEN 1 ELSE 0))
        % (2 ^ (2 * PrioBits))

\* g is always the LOCAL candidate's priority, d the REMOTE one's.
calculate_pair_priority(pair) ==
    PairPriorityOf(pair.local_candidate.priority, pair.remote_candidate.priority)

RECURSIVE InsertDesc(_, _)
\* position of p in an already sorted sequence; equal keys keep their order
InsertDesc(sorted, p) ==
    IF sorted = <<>> THEN <<p>>
    ELSE IF calculate_pair_priority(Head(sorted)) >= calculate_pair_priority(p)
         THEN <<Head(sorted)>> \o InsertDesc(Tail(sorted), p)
         ELSE <<p>> \o sorted

RECURSIVE SortFrom(_, _)
SortFrom(pairs, acc) ==
    IF pairs = <<>> THEN acc
    ELSE SortFrom(Tail(pairs), InsertDesc(acc, Head(pairs)))

RECURSIVE Reverse(_)
Reverse(q) == IF q = <<>> THEN <<>> ELSE Append(Reverse(Tail(q)), Head(q))

\* the comparator written the other way round: a.1.cmp(&b.1)
sort_pairs_ascending(pairs) == Reverse(SortFrom(Reverse(pairs), <<>>))

\* pairs_with_priority.sort_by(|a, b| b.1.cmp(&a.1))  (sort_by is stable)
sort_pairs_by_priority(pairs) == SortFrom(pairs, <<>>)


(***************************************************************************)
(* State of one RtcPeerConnection (rtc/rtc_peer_connection.rs:30-44), its  *)
(* IceAgent (ice/agent.rs:13-23), DtlsSession (rtc/rtc_dtls.rs:111-117)    *)
(* and PeerSocket (rtc/socket/peer_socket.rs:12-18).                       *)
(***************************************************************************)
VARIABLES
    role,                      \* PeerConnectionRole
    local_candidate,           \* IceAgent.local_candidate
    remote_candidate,          \* IceAgent.remote_candidate
    candidate_pairs,           \* IceAgent.candidate_pairs
    selected_pair,             \* IceAgent.selected_pair
    host_candidate_registered,
    local_description,
    remote_description,
    remote_credentials,
    dtls_session,              \* TRUE iff DtlsSession::new(..).ok() is Some
    remote_fingerprint,        \* DtlsSession.remote_fingerprint
    ssl_stream,                \* TRUE iff DtlsSession.ssl_stream is Some
    dtls_receiver,             \* TRUE iff dtls_receiver is still Some
    srtp_context,
    socket_remote_addr,        \* PeerSocket.remote_addr
    pc,                        \* position of the running API call
    idx,                       \* loop index of run_connectivity_checks
    pairs_to_check,            \* its clone of the sorted pairs
    successful_pairs,
    loop_selected,             \* its local selected_pair
    hs_timeout,                \* the _timeout_ms argument of the running call
    hs_elapsed,                \* time spent so far in the handshake loop
    last_call,                 \* the last API call and what it returned
    checked,                   \* pairs handed to perform_connectivity_check
    fp_matched,                \* the peer certificate was compared and matched
    checks_run                 \* number of start_connectivity_checks calls

pcVars == <<role, local_candidate, remote_candidate, candidate_pairs,
            selected_pair, host_candidate_registered, local_description,
            remote_description, remote_credentials, dtls_session,
            remote_fingerprint, ssl_stream, dtls_receiver, srtp_context,
            socket_remote_addr, pc, idx, pairs_to_check, successful_pairs,
            loop_selected, hs_timeout, hs_elapsed, last_call, checked,
            fp_matched, checks_run>>

iceAgentVars == <<local_candidate, remote_candidate, candidate_pairs,
                  selected_pair, host_candidate_registered>>
sdpVars == <<local_description, remote_description, remote_credentials>>
dtlsVars == <<remote_fingerprint, ssl_stream, dtls_receiver, srtp_context,
              fp_matched>>
loopVars == <<pc, idx, pairs_to_check, successful_pairs, loop_selected,
              checked>>
hsVars == <<hs_timeout, hs_elapsed>>

(***************************************************************************)
(* State of the pair-priority computation (SpecPair) and of the two agents *)
(* checking each other over loopback (SpecIce).                            *)
(***************************************************************************)
VARIABLES
    pair_input,                \* the agent's role and the two candidate priorities
    pair_output,               \* what the pair priority computation produced
    sock,                      \* per peer: datagrams queued in its UDP socket
    chk,                       \* per peer: position in perform_connectivity_check
    listener_started,          \* per peer: the PeerSocket listener thread runs
    connected                  \* per peer: IceAgent.selected_pair is Some

pairVars == <<pair_input, pair_output>>
iceVars == <<sock, chk, listener_started, connected>>

(***************************************************************************)
(* State of the SDP rendering and parsing (SpecSdp).                       *)
(***************************************************************************)
VARIABLES
    sdp_agent,                 \* the IceAgent given to ice_to_sdp
    sdp_fingerprint,           \* the Option<&str> given to ice_to_sdp
    sdp_string,                \* SessionDescription::to_string(), once rendered
    sdp_parsed                 \* what from_str + sdp_to_ice_candidates returned

sdpCodecVars == <<sdp_agent, sdp_fingerprint, sdp_string, sdp_parsed>>

(***************************************************************************)
(* State of an offer/answer exchange between two connections (SpecNeg).    *)
(***************************************************************************)
VARIABLES
    neg_peer,                  \* per peer: the RtcPeerConnection fields used
    neg_results                \* the Results of the calls made so far, in order

negVars == <<neg_peer, neg_results>>

(***************************************************************************)
(* State of the video path: RtcRtpSender, the datagrams on their way, and  *)
(* the RtpReceiverThread with its JitterBuffer (SpecRx, SpecJb).           *)
(***************************************************************************)
VARIABLES
    snd_sequence_number,       \* RtcRtpSender.sequence_number
    snd_timestamp,             \* RtcRtpSender.timestamp
    snd_frames,                \* the frame_bytes given to send_video_payload so far
    snd_packets,               \* every RtpPacket handed to the socket, in sending order
    net,                       \* the packets sent and not yet received
    jb_frames,                 \* JitterBuffer.frames: timestamp -> FrameBuffer
    jb_last_timestamp,         \* JitterBuffer.last_timestamp
    jb_popped,                 \* the timestamps of the frames pop returned, in order
    rx_decoded                 \* the byte vectors sent on tx_decoded, in order

rtpVars == <<snd_sequence_number, snd_timestamp, snd_frames, snd_packets, net,
             jb_frames, jb_last_timestamp, jb_popped, rx_decoded>>

(***************************************************************************)
(* State of one SrtpContext protecting and unprotecting a payload          *)
(* (SpecSrtp).                                                             *)
(***************************************************************************)
VARIABLES
    srtp_ctx,                  \* SrtpContext::new(key_bytes)
    srtp_sent,                 \* the last protect call: seq, timestamp, payload, cipher
    srtp_got                   \* the last unprotect call on that cipher: seq, timestamp, plain

srtpVars == <<srtp_ctx, srtp_sent, srtp_got>>

mediaVars == <<rtpVars, srtpVars>>

(***************************************************************************)
(* State of the RtpSenderThread loop (SpecSend).                           *)
(***************************************************************************)
VARIABLES
    sw_consecutive_errors,     \* the local consecutive_errors of run
    sw_poisoned,               \* the PeerSocket mutex is poisoned
    sw_exit,                   \* what run returned, once it has
    sw_send_failures,          \* failed sends in a row up to now
    sw_last                    \* what the last round of the loop met

sendVars == <<sw_consecutive_errors, sw_poisoned, sw_exit, sw_send_failures,
              sw_last>>

(***************************************************************************)
(* State of the RtcpReporterThread loop (SpecRtcp).                        *)
(***************************************************************************)
VARIABLES
    rc_packet_count,           \* MediaMetrics.sender.packet_count > 0
    rc_remote_ssrc,            \* MediaMetrics.receiver.remote_ssrc is Some
    rc_exit,                   \* what run returned, once it has
    rc_ticks,                  \* rounds of the loop so far
    rc_reports,                \* the reports sent, in order ("SR", "RR")
    rc_send_failed             \* socket.send calls that returned Err

rtcpVars == <<rc_packet_count, rc_remote_ssrc, rc_exit, rc_ticks, rc_reports,
              rc_send_failed>>

(***************************************************************************)
(* State of the threads of one call and of their channels (SpecStop).      *)
(***************************************************************************)
VARIABLES
    st_conn,                   \* "new", or "up" once start_ice has run
    st_media,                  \* P2PClient.media_worker: "none", "running",
                               \* "stopped" (taken by stop_media)
    st_threads,                \* the threads that have not returned
    st_ch,                     \* items queued in each sync_channel
    st_phase                   \* where the reporter and the pump are in
                               \* their loops: "sleep" or "work"

stopVars == <<st_conn, st_media, st_threads, st_ch, st_phase>>

(***************************************************************************)
(* State of the inactivity watch of VideoCall::update (SpecCall).          *)
(***************************************************************************)
VARIABLES
    cl_now,                    \* the clock, in seconds
    cl_media_started,          \* VideoCall.media_started
    cl_closed,                 \* stop_current_call has run
    cl_last_remote_seen,       \* VideoCall.last_remote_seen
    cl_last_arrival,           \* MediaMetrics.receiver.last_arrival
    cl_decoded,                \* a decoded remote frame waits in rx_decoded
    cl_rtp_at,                 \* when the call began or RTP last arrived
    cl_byes,                   \* RTCP BYE packets sent
    cl_call_end_msgs,          \* "CALL_END" text messages sent
    cl_silent_update           \* the last update ran with the call active
                               \* and more than 30 s without RTP

callVars == <<cl_now, cl_media_started, cl_closed, cl_last_remote_seen,
              cl_last_arrival, cl_decoded, cl_rtp_at, cl_byes,
              cl_call_end_msgs, cl_silent_update>>

(***************************************************************************)
(* State of the file transfer of the call screen (SpecFile).               *)
(***************************************************************************)
VARIABLES
    ft_assoc,                  \* SctpAssociation.association: "up", "lost"
    ft_outgoing_file,          \* VideoCall.outgoing_file
    ft_incoming_file,          \* VideoCall.incoming_file
    ft_pending_offer,          \* VideoCall.pending_offer
    ft_senders,                \* chunks each file-sender thread has left;
                               \* -1 once it has sent its Eof
    ft_offers,                 \* files picked so far
    ft_to_peer,                \* Offers on their way to the peer
    ft_from_peer,              \* control messages on their way from the peer
    ft_peer_pending,           \* the peer's pending_offer
    ft_seen,                   \* what was sent and received so far
    ft_broken,                 \* orderings of the protocol that were broken
    ft_ui_after_loss           \* update has run since the association
                               \* was lost

fileVars == <<ft_assoc, ft_outgoing_file, ft_incoming_file, ft_pending_offer,
              ft_senders, ft_offers, ft_to_peer, ft_from_peer,
              ft_peer_pending, ft_seen, ft_broken, ft_ui_after_loss>>

(***************************************************************************)
(* State of the locks and of the SCTP channel of one client (SpecLock).    *)
(***************************************************************************)
VARIABLES
    lk_at,                     \* where each thread is in its code
    lk_pc,                     \* the thread holding the PeerConnection mutex
    lk_inc,                    \* the thread holding the sctp_incoming mutex
    lk_chan,                   \* messages queued in the sync_channel(100)
    lk_picks,                  \* of these, the stream-999 messages
    lk_pending                 \* `incoming` of the pump round, not yet sent

lockVars == <<lk_at, lk_pc, lk_inc, lk_chan, lk_picks, lk_pending>>

(***************************************************************************)
(* State of the inbound RTP path of one client (SpecInbound).              *)
(***************************************************************************)
VARIABLES
    in_at,                     \* where the connection thread and the UI
                               \* thread (start_ice, then update) are
    in_pc,                     \* the thread holding the PeerConnection mutex
    in_srtp_context,           \* RtcPeerConnection.srtp_context
    in_listener_ctx,           \* the srtp_context the listener closure holds
    in_receiver_ctx,           \* RtpReceiverThread.srtp
    in_queue,                  \* the packet between listener and receiver
    in_delivered               \* the packet the jitter buffer was given

inVars == <<in_at, in_pc, in_srtp_context, in_listener_ctx, in_receiver_ctx,
            in_queue, in_delivered>>

(***************************************************************************)
(* State of the PeerSocket listener thread (SpecListen).                   *)
(***************************************************************************)
VARIABLES
    ls_alive,                  \* the listener thread is in its loop
    ls_rounds,                 \* datagrams received so far
    ls_dtls_queue,             \* the datagrams sent on dtls_sender
    ls_media_queue,            \* the datagrams sent on the receiver channel
    ls_replies,                \* Binding success responses sent back
    ls_last                    \* the datagram of the last round and where
                               \* the round put it

listenVars == <<ls_alive, ls_rounds, ls_dtls_queue, ls_media_queue,
                ls_replies, ls_last>>

(***************************************************************************)
(* State of one RtcRtpSender whose socket can fail (SpecStamp).            *)
(***************************************************************************)
VARIABLES
    ts_sequence_number,        \* RtcRtpSender.sequence_number
    ts_timestamp,              \* RtcRtpSender.timestamp
    ts_log                     \* per frame handed to send_video_payload:
                               \* the timestamps of the packets built for it
                               \* and whether the call returned Ok

stampVars == <<ts_sequence_number, ts_timestamp, ts_log>>

(***************************************************************************)
(* State of one accepted file transfer, sender thread to receiver's file   *)
(* (SpecXfer).                                                             *)
(***************************************************************************)
VARIABLES
    xf_file,                   \* the sender's file, as its 4096-byte chunks
    xf_next,                   \* the chunk the sender thread reads next
    xf_stream1,                \* messages sent on SCTP stream 1, not yet read
    xf_stream2,                \* messages sent on SCTP stream 2, not yet read
    xf_incoming_open,          \* the receiver's incoming_file with its handle
    xf_written,                \* what the receiver wrote to its file
    xf_skipped                 \* chunks whose send_sctp_data gave up

xferVars == <<xf_file, xf_next, xf_stream1, xf_stream2, xf_incoming_open,
              xf_written, xf_skipped>>

(***************************************************************************)
(* State of the signalling server (server/state.rs:15-22) and of the       *)
(* threads running handle_client, one per connection (SpecServer).         *)
(***************************************************************************)
VARIABLES
    sv_users,                  \* ServerState.users: the registered names
    sv_clients,                \* ServerState.connected_clients: per name,
                               \* the connection whose sender is stored
    sv_statuses,               \* ServerState.user_statuses
    sv_calls,                  \* ServerState.active_calls
    sv_auth,                   \* authenticated_user of each handle_client
    sv_open,                   \* the connection is in its read loop
    sv_todo,                   \* per connection, the locked sections its
                               \* running handler still has to go through
    sv_requests                \* requests and connections accepted so far

serverVars == <<sv_users, sv_clients, sv_statuses, sv_calls, sv_auth,
                sv_open, sv_todo, sv_requests>>

\* the state of the listener, of the transfer and of the signalling server
extraVars == <<listenVars, stampVars, xferVars, serverVars>>

\* the state of the worker threads and of the application
appVars == <<sendVars, rtcpVars, stopVars, callVars, fileVars, lockVars,
             inVars, extraVars>>

\* the state of the other specifications
moreVars == <<sdpCodecVars, negVars, mediaVars, appVars>>

\* what the actions of one peer connection leave alone
outsidePc == <<pairVars, iceVars, moreVars>>

Roles == {"Controlling", "Controlled"}

\* the role test answering true for either role
is_controlling_any(r) == r \in Roles

\* PeerConnectionRole::is_controlling
is_controlling(r) == r = "Controlling"

(***************************************************************************)
(* The environment: what the socket, the STUN server, the remote SDP and   *)
(* the DTLS peer can be.                                                   *)
(***************************************************************************)
LocalAddr == "10.0.0.1"
PublicAddr == "203.0.113.7"
LocalSocket == [address |-> LocalAddr, port |-> 5000]
LocalFingerprint == "FP:LOCAL"
Fingerprints == {"FP:AA", "FP:BB"}
StunAnswers == {None, Some(PublicAddr)}

\* a=candidate:<found> 1 UDP <priority> <addr> <port> typ <type>
HostLine == [priority |-> calculate_priority("Host", 1),
             address |-> "192.168.2.100", port |-> 6000, typ |-> "host"]
SrflxLine == [priority |-> calculate_priority("Srflx", 1),
              address |-> "198.51.100.9", port |-> 6001, typ |-> "srflx"]

CandidateLists ==
    {<<>>, <<HostLine>>, <<SrflxLine>>, <<SrflxLine, HostLine>>}

\* A remote SDP text, by what SessionDescription::from_str and the
\* attribute getters make of it.
SdpText(fingerprint, candidates) ==
    [wellformed |-> TRUE, ufrag |-> Some("ufragRem"), pwd |-> Some("pwdRem"),
     fingerprint |-> fingerprint, candidates |-> candidates]

CompleteSdp == SdpText(Some("FP:AA"), <<HostLine>>)

\* every combination of fingerprint and candidate lines, and one text each
\* that does not parse, lacks ice-ufrag, lacks ice-pwd
RemoteSdps ==
    { SdpText(fp, cl) : fp \in {None, Some("FP:AA")}, cl \in CandidateLists }
    \cup { [CompleteSdp EXCEPT !.wellformed = FALSE],
           [CompleteSdp EXCEPT !.ufrag = None],
           [CompleteSdp EXCEPT !.pwd = None] }

(***************************************************************************)
(* protocols/sdp/session_description.rs and sdp_helper.rs                  *)
(***************************************************************************)
\* SessionDescription::get_ice_credentials
get_ice_credentials(sdp) ==
    IF sdp.ufrag # None /\ sdp.pwd # None
    THEN [ok |-> TRUE, creds |-> <<sdp.ufrag[1], sdp.pwd[1]>>]
    ELSE [ok |-> FALSE, creds |-> <<>>]

typ_always_host(typ) == "Host"

\* match candidate_info.typ.as_str() { "host" => Host, "srflx" => Srflx,
\*                                     "relay" => Relay, _ => Host }
typ_to_candidate_type(typ) ==
    CASE typ = "host" -> "Host"
      [] typ = "srflx" -> "Srflx"
      [] typ = "relay" -> "Relay"
      [] OTHER -> "Host"

\* SessionDescription::get_ice_candidates
get_ice_candidates(sdp) ==
    [i \in 1..Len(sdp.candidates) |->
        [name |-> <<"remote", i - 1>>,
         address |-> sdp.candidates[i].address,
         port |-> sdp.candidates[i].port,
         candidate_type |-> typ_to_candidate_type(sdp.candidates[i].typ),
         priority |-> sdp.candidates[i].priority]]

\* sdp_to_ice_candidates: credentials, then the candidates must not be empty;
\* the fingerprint is returned as an Option and is NOT required here.
sdp_to_ice_candidates(sdp) ==
    LET cr == get_ice_credentials(sdp) IN
    IF ~cr.ok THEN [ok |-> FALSE]
    ELSE IF get_ice_candidates(sdp) = <<>> THEN [ok |-> FALSE]
    ELSE [ok |-> TRUE, creds |-> cr.creds,
          candidates |-> get_ice_candidates(sdp),
          fingerprint |-> sdp.fingerprint]

candidate_type_to_typ(t) ==
    CASE t = "Host" -> "host" [] t = "Srflx" -> "srflx" [] OTHER -> "relay"

\* ice_to_sdp + Display: the local description rendered from the agent
build_local_description(lc, has_session) ==
    [wellformed |-> TRUE, ufrag |-> Some("ufragLoc"), pwd |-> Some("pwdLoc"),
     fingerprint |-> IF has_session THEN Some(LocalFingerprint) ELSE None,
     candidates |-> [i \in 1..Len(lc) |->
                       [priority |-> lc[i].priority, address |-> lc[i].address,
                        port |-> lc[i].port,
                        typ |-> candidate_type_to_typ(lc[i].candidate_type)]]]

validate_dtls_fingerprint_any(fingerprint) == TRUE

\* validate_dtls_fingerprint
validate_dtls_fingerprint(fingerprint) == fingerprint # None

(***************************************************************************)
(* ice/agent.rs                                                            *)
(***************************************************************************)
\* IceAgent::register_host_candidate
register_host_candidate(lc, address, port) ==
    IF \E i \in 1..Len(lc) : lc[i].port = port /\ lc[i].address = address
    THEN lc
    ELSE Append(lc, create_host_candidate(Len(lc), address, port))

\* IceAgent::gather_reflexive_candidates; stun is the answer of the query
gather_reflexive_candidates(lc, stun) ==
    IF stun = None THEN lc
    ELSE IF \E i \in 1..Len(lc) :
               /\ lc[i].address = stun[1]
               /\ lc[i].port = LocalSocket.port
               /\ lc[i].candidate_type = "Srflx"
         THEN lc
         ELSE Append(lc, create_srflx_candidate(Len(lc), stun[1], LocalSocket.port))

\* RtcPeerConnection::ensure_host_candidate, as the new local candidates
ensure_host_candidate(lc, registered, stun) ==
    IF registered THEN lc
    ELSE gather_reflexive_candidates(
             register_host_candidate(lc, LocalSocket.address, LocalSocket.port), stun)

\* the pairs add_remote_candidate pushes for one candidate
NewPairs(lc, candidate) ==
    [i \in 1..Len(lc) |->
        [local_candidate |-> lc[i], remote_candidate |-> candidate,
         state |-> "Waiting"]]

RECURSIVE add_remote_candidates(_, _, _)
\* process_remote_sdp's loop over IceAgent::add_remote_candidate, as the
\* pair of new remote candidates and new pairs
add_remote_candidates(agent, lc, candidates) ==
    IF candidates = <<>> THEN agent
    ELSE add_remote_candidates(
            [remote |-> Append(agent.remote, Head(candidates)),
             pairs |-> agent.pairs \o NewPairs(lc, Head(candidates))],
            lc, Tail(candidates))


(***************************************************************************)
(* rtc/rtc_peer_connection.rs: SDP negotiation                             *)
(***************************************************************************)
Returned(op, result) == [op |-> op, result |-> result]

\* the attributes a remote SDP text does not carry
MissingFrom(sdp) ==
    (IF sdp.ufrag = None THEN {"ice-ufrag"} ELSE {})
    \cup (IF sdp.pwd = None THEN {"ice-pwd"} ELSE {})
    \cup (IF sdp.fingerprint = None THEN {"fingerprint"} ELSE {})
    \cup (IF sdp.candidates = <<>> THEN {"candidate"} ELSE {})

\* the Result of a call that was given a remote SDP
ReturnedFor(op, result, sdp) ==
    [op |-> op, result |-> result, missing |-> MissingFrom(sdp)]

\* RtcPeerConnection::create_offer
create_offer ==
    /\ pc = "idle"
    /\ IF ~is_controlling(role)
       THEN /\ last_call' = Returned("create_offer", "InvalidRole")
            /\ UNCHANGED <<iceAgentVars, sdpVars>>
       ELSE \E stun \in StunAnswers :
            LET lc == ensure_host_candidate(local_candidate,
                                            host_candidate_registered, stun)
            IN /\ local_candidate' = lc
               /\ host_candidate_registered' = TRUE
               /\ local_description' =
                     Some(build_local_description(lc, dtls_session))
               /\ last_call' = Returned("create_offer", "Ok")
               /\ UNCHANGED <<remote_candidate, candidate_pairs, selected_pair,
                              remote_description, remote_credentials>>
    /\ UNCHANGED <<role, outsidePc, dtls_session, dtlsVars, socket_remote_addr, loopVars,
                   hsVars, checks_run>>

\* what process_remote_sdp, validate_dtls_fingerprint and
\* set_remote_dtls_fingerprint, in this order, make the call return
remote_result(sdp, has_session) ==
    IF ~sdp.wellformed THEN "Sdp"
    ELSE IF ~sdp_to_ice_candidates(sdp).ok THEN "Sdp"
    ELSE IF ~validate_dtls_fingerprint(sdp_to_ice_candidates(sdp).fingerprint)
    THEN "Sdp"
    ELSE IF ~has_session THEN "Dtls"
    ELSE "Ok"

\* process_remote_sdp followed by validate_dtls_fingerprint and
\* set_remote_dtls_fingerprint, shared by process_offer and
\* set_remote_description.  lc is the local candidate list at that point.
\* Yields the result and every field the two callers assign.
install_remote(op, sdp, lc) ==
    LET parsed == sdp_to_ice_candidates(sdp)
        agent == IF sdp.wellformed /\ parsed.ok
                 THEN add_remote_candidates(
                          [remote |-> remote_candidate, pairs |-> candidate_pairs],
                          lc, parsed.candidates)
                 ELSE [remote |-> remote_candidate, pairs |-> candidate_pairs]
        result == remote_result(sdp, dtls_session)
    IN /\ remote_candidate' = agent.remote
       /\ candidate_pairs' = agent.pairs
       /\ remote_fingerprint' =
             IF result = "Ok" THEN parsed.fingerprint ELSE remote_fingerprint
       /\ remote_description' =
             IF result = "Ok" THEN Some(sdp) ELSE remote_description
       /\ remote_credentials' =
             IF result = "Ok" THEN Some(parsed.creds) ELSE remote_credentials
       /\ last_call' = ReturnedFor(op, result, sdp)

FitsRemote(sdp) == Len(remote_candidate) + Len(sdp.candidates) <= MaxRemote

\* RtcPeerConnection::process_offer
process_offer ==
    /\ pc = "idle"
    /\ IF is_controlling(role)
       THEN /\ last_call' = Returned("process_offer", "InvalidRole")
            /\ UNCHANGED <<iceAgentVars, sdpVars, remote_fingerprint>>
       ELSE \E stun \in StunAnswers, sdp \in RemoteSdps :
            LET lc == ensure_host_candidate(local_candidate,
                                            host_candidate_registered, stun)
            IN /\ FitsRemote(sdp)
               /\ local_candidate' = lc
               /\ host_candidate_registered' = TRUE
               /\ install_remote("process_offer", sdp, lc)
               /\ local_description' =
                     IF last_call'.result = "Ok"
                     THEN Some(build_local_description(lc, dtls_session))
                     ELSE local_description
               /\ UNCHANGED selected_pair
    /\ UNCHANGED <<role, outsidePc, dtls_session, ssl_stream, dtls_receiver, srtp_context,
                   fp_matched, socket_remote_addr, loopVars, hsVars, checks_run>>

\* RtcPeerConnection::set_remote_description
set_remote_description ==
    /\ pc = "idle"
    /\ IF ~is_controlling(role)
       THEN /\ last_call' = Returned("set_remote_description", "InvalidRole")
            /\ UNCHANGED <<remote_candidate, candidate_pairs, sdpVars,
                           remote_fingerprint>>
       ELSE \E sdp \in RemoteSdps :
               /\ FitsRemote(sdp)
               /\ install_remote("set_remote_description", sdp, local_candidate)
               /\ UNCHANGED local_description
    /\ UNCHANGED <<role, outsidePc, local_candidate, selected_pair,
                   host_candidate_registered, dtls_session, ssl_stream,
                   dtls_receiver, srtp_context, fp_matched, socket_remote_addr,
                   loopVars, hsVars, checks_run>>


(***************************************************************************)
(* ice/connectivity.rs run_connectivity_checks, one loop iteration per     *)
(* step, inside RtcPeerConnection::start_connectivity_checks               *)
(***************************************************************************)
CheckOutcomes == {"true", "false", "err"}

SameCandidates(p, q) ==
    /\ p.local_candidate = q.local_candidate
    /\ p.remote_candidate = q.remote_candidate

\* start_connectivity_checks forgetting the selected pair when a run fails
agent_selected_after_clearing(selected, run) ==
    IF ~run.ok THEN None
    ELSE IF run.pair # None THEN run.pair
    ELSE selected

\* IceAgent::start_connectivity_checks: what selected_pair becomes when
\* run_connectivity_checks returned run = [ok, pair]
agent_selected_after(selected, run) ==
    IF ~run.ok THEN selected          \* `?` returns early, field untouched
    ELSE IF run.pair # None THEN run.pair
    ELSE selected

\* the part of RtcPeerConnection::start_connectivity_checks after the agent
\* returned: map the error, register the selected address in the socket
checks_return(run) ==
    LET sel == agent_selected_after(selected_pair, run) IN
    /\ selected_pair' = sel
    /\ socket_remote_addr' =
          IF run.ok /\ sel # None
          THEN Some(<<sel[1].remote_candidate.address,
                      sel[1].remote_candidate.port>>)
          ELSE socket_remote_addr
    /\ last_call' = Returned("start_connectivity_checks",
                             IF run.ok THEN "Ok" ELSE "Ice")
    /\ pc' = "idle"
    /\ idx' = 0
    /\ pairs_to_check' = <<>>
    /\ successful_pairs' = 0
    /\ loop_selected' = None

\* start_connectivity_checks up to the first perform_connectivity_check
start_connectivity_checks ==
    /\ pc = "idle"
    /\ checks_run < MaxChecks
    /\ checks_run' = checks_run + 1
    /\ \E stun \in StunAnswers :
          local_candidate' = ensure_host_candidate(local_candidate,
                                 host_candidate_registered, stun)
    /\ host_candidate_registered' = TRUE
    /\ IF candidate_pairs = <<>>
       THEN /\ last_call' = Returned("start_connectivity_checks", "Ice")
            /\ checked' = <<>>
            /\ UNCHANGED <<candidate_pairs, pc, idx, pairs_to_check,
                           successful_pairs, loop_selected>>
       ELSE LET sorted == sort_pairs_by_priority(candidate_pairs) IN
            /\ pairs_to_check' = sorted
            /\ candidate_pairs' = [sorted EXCEPT ![1].state = "InProgress"]
            /\ idx' = 1
            /\ successful_pairs' = 0
            /\ loop_selected' = None
            /\ checked' = <<sorted[1]>>
            /\ pc' = "checking"
            /\ UNCHANGED last_call
    /\ UNCHANGED <<role, outsidePc, remote_candidate, selected_pair, sdpVars, dtls_session,
                   dtlsVars, socket_remote_addr, hsVars>>

run_result_lenient(successful, sel) == [ok |-> TRUE, pair |-> sel]

\* the end of run_connectivity_checks, after the loop over the pairs
run_result(successful, sel) ==
    IF successful = 0 THEN [ok |-> FALSE, pair |-> None]
    ELSE [ok |-> TRUE, pair |-> sel]

\* one perform_connectivity_check returned `outcome` for pairs_to_check[idx]
check_step(outcome) ==
    LET pair == pairs_to_check[idx]
        ok == outcome = "true"
        marked == [candidate_pairs EXCEPT
                     ![idx].state = IF ok THEN "Succeeded" ELSE "Failed"]
        succ == successful_pairs + (IF ok THEN 1 ELSE 0)
        sel == IF ok /\ loop_selected = None THEN Some(pair) ELSE loop_selected
        early == ok /\ is_controlling(role)
    IN
    /\ pc = "checking"
    /\ IF early
       THEN /\ candidate_pairs' = marked
            /\ checks_return([ok |-> TRUE, pair |-> sel])
            /\ UNCHANGED checked
       ELSE IF idx < Len(pairs_to_check)
       THEN /\ candidate_pairs' = [marked EXCEPT ![idx + 1].state = "InProgress"]
            /\ idx' = idx + 1
            /\ successful_pairs' = succ
            /\ loop_selected' = sel
            /\ checked' = Append(checked, pairs_to_check[idx + 1])
            /\ UNCHANGED <<pc, pairs_to_check, selected_pair,
                           socket_remote_addr, last_call>>
       ELSE /\ candidate_pairs' = marked
            /\ checks_return(run_result(succ, sel))
            /\ UNCHANGED checked
    /\ UNCHANGED <<role, outsidePc, local_candidate, remote_candidate,
                   host_candidate_registered, sdpVars, dtls_session, dtlsVars,
                   hsVars, checks_run>>

check_result == \E outcome \in CheckOutcomes : check_step(outcome)

(***************************************************************************)
(* rtc/rtc_peer_connection.rs start_dtls_handshake and                     *)
(* rtc/rtc_dtls.rs perform_handshake                                       *)
(***************************************************************************)
\* crypto/srtp.rs SrtpContext::new
SrtpContext_new(key_len) ==
    IF key_len < 16 THEN None ELSE Some([key_len |-> key_len])

\* step 4 of perform_handshake: the comparison runs only when a remote
\* fingerprint was stored
verify_fingerprint(expected_fp, peer_cert) ==
    IF expected_fp = None THEN [ok |-> TRUE, compared |-> FALSE]
    ELSE IF peer_cert = None THEN [ok |-> FALSE, compared |-> FALSE]
    ELSE IF peer_cert # expected_fp THEN [ok |-> FALSE, compared |-> TRUE]
    ELSE [ok |-> TRUE, compared |-> TRUE]

\* start_dtls_handshake up to the call of perform_handshake; the timeout
\* argument is named _timeout_ms and is not read again
start_dtls_handshake ==
    \E timeout_ms \in 1..(MaxElapsed - 1) :
    /\ pc = "idle"
    /\ IF selected_pair = None \/ socket_remote_addr = None
       THEN /\ last_call' = Returned("start_dtls_handshake", "Ice")
            /\ UNCHANGED <<dtls_receiver, pc, hsVars>>
       ELSE IF ~dtls_receiver
       THEN /\ last_call' = Returned("start_dtls_handshake", "Dtls")
            /\ UNCHANGED <<dtls_receiver, pc, hsVars>>
       ELSE /\ dtls_receiver' = FALSE
            /\ IF ~dtls_session
               THEN /\ last_call' = Returned("start_dtls_handshake", "Dtls")
                    /\ UNCHANGED <<pc, hsVars>>
               ELSE /\ pc' = "handshaking"
                    /\ hs_timeout' = timeout_ms
                    /\ hs_elapsed' = 0
                    /\ UNCHANGED last_call
    /\ UNCHANGED <<role, outsidePc, iceAgentVars, sdpVars, dtls_session, remote_fingerprint,
                   ssl_stream, srtp_context, fp_matched, socket_remote_addr,
                   idx, pairs_to_check, successful_pairs, loop_selected,
                   checked, checks_run>>

\* Err(HandshakeError::WouldBlock(mid_stream)) => mid_stream.handshake():
\* no datagram in the channel; time passes and the loop goes round again
handshake_would_block ==
    /\ pc = "handshaking"
    /\ hs_elapsed < MaxElapsed
    /\ hs_elapsed' = hs_elapsed + 1
    /\ UNCHANGED <<role, outsidePc, iceAgentVars, sdpVars, dtls_session, dtlsVars,
                   socket_remote_addr, loopVars, hs_timeout, last_call,
                   checks_run>>

handshake_return(result) ==
    /\ last_call' = Returned("start_dtls_handshake", result)
    /\ pc' = "idle"
    /\ hs_timeout' = 0
    /\ hs_elapsed' = 0

\* Err(HandshakeError::Failure | SetupFailure) => return Err
handshake_failure ==
    /\ pc = "handshaking"
    /\ handshake_return("Dtls")
    /\ UNCHANGED <<role, outsidePc, iceAgentVars, sdpVars, dtls_session, dtlsVars,
                   socket_remote_addr, idx, pairs_to_check, successful_pairs,
                   loop_selected, checked, checks_run>>

\* perform_handshake storing the stream before it verifies the fingerprint
handshake_complete_store_first(peer_cert) ==
    LET v == verify_fingerprint(remote_fingerprint, peer_cert) IN
    /\ pc = "handshaking"
    /\ ssl_stream' = TRUE
    /\ IF v.ok
       THEN /\ srtp_context' = SrtpContext_new(32)
            /\ fp_matched' = v.compared
            /\ handshake_return("Ok")
       ELSE /\ handshake_return("Dtls")
            /\ UNCHANGED <<srtp_context, fp_matched>>
    /\ UNCHANGED <<role, outsidePc, iceAgentVars, sdpVars, dtls_session,
                   remote_fingerprint, dtls_receiver, socket_remote_addr, idx,
                   pairs_to_check, successful_pairs, loop_selected, checked,
                   checks_run>>

\* Ok(s) => break s; then fingerprint verification, ssl_stream = Some(stream),
\* export_srtp_keying_material(32) and set_srtp_key
handshake_complete(peer_cert) ==
    LET v == verify_fingerprint(remote_fingerprint, peer_cert) IN
    /\ pc = "handshaking"
    /\ IF v.ok
       THEN /\ ssl_stream' = TRUE
            /\ srtp_context' = SrtpContext_new(32)
            /\ fp_matched' = v.compared
            /\ handshake_return("Ok")
       ELSE /\ handshake_return("Dtls")
            /\ UNCHANGED <<ssl_stream, srtp_context, fp_matched>>
    /\ UNCHANGED <<role, outsidePc, iceAgentVars, sdpVars, dtls_session, remote_fingerprint,
                   dtls_receiver, socket_remote_addr, idx, pairs_to_check,
                   successful_pairs, loop_selected, checked, checks_run>>

handshake_ok == \E peer_cert \in {None} \cup {Some(f) : f \in Fingerprints} :
                    handshake_complete(peer_cert)

(***************************************************************************)
(* RtcPeerConnection::new and the specification of one connection          *)
(***************************************************************************)
PcFresh ==
    /\ local_candidate = <<>>
    /\ remote_candidate = <<>>
    /\ candidate_pairs = <<>>
    /\ selected_pair = None
    /\ host_candidate_registered = FALSE
    /\ local_description = None
    /\ remote_description = None
    /\ remote_credentials = None
    /\ remote_fingerprint = None
    /\ ssl_stream = FALSE
    /\ dtls_receiver = TRUE
    /\ srtp_context = None
    /\ socket_remote_addr = None
    /\ pc = "idle"
    /\ idx = 0
    /\ pairs_to_check = <<>>
    /\ successful_pairs = 0
    /\ loop_selected = None
    /\ hs_timeout = 0
    /\ hs_elapsed = 0
    /\ last_call = Returned("new", "Ok")
    /\ checked = <<>>
    /\ fp_matched = FALSE
    /\ checks_run = 0

\* DtlsSession::new(dtls_role).ok(): key generation may have failed
InitPc == role \in Roles /\ dtls_session \in BOOLEAN /\ PcFresh

\* a connection nobody uses, for the specifications that are not about it
PcIdle == role = "Controlling" /\ dtls_session = TRUE /\ PcFresh

vars == <<pcVars, pairVars, iceVars, moreVars>>

\* the variables of the other specifications, at rest
PairIdle == pair_input = None /\ pair_output = None
IceIdle ==
    /\ sock = <<>>
    /\ chk = <<>>
    /\ listener_started = <<>>
    /\ connected = <<>>

SdpCodecIdle ==
    /\ sdp_agent = None
    /\ sdp_fingerprint = None
    /\ sdp_string = None
    /\ sdp_parsed = None

NegIdle == neg_peer = None /\ neg_results = <<>>

RtpIdle ==
    /\ snd_sequence_number = 0
    /\ snd_timestamp = 0
    /\ snd_frames = <<>>
    /\ snd_packets = <<>>
    /\ net = {}
    /\ jb_frames = <<>>
    /\ jb_last_timestamp = None
    /\ jb_popped = <<>>
    /\ rx_decoded = <<>>

SrtpIdle == srtp_ctx = None /\ srtp_sent = None /\ srtp_got = None

SendIdle ==
    /\ sw_consecutive_errors = 0
    /\ sw_poisoned = FALSE
    /\ sw_exit = None
    /\ sw_send_failures = 0
    /\ sw_last = "none"

Channels == {"bgr", "rgb", "encoded", "rtp", "incoming", "decoded"}

StopIdle ==
    /\ st_conn = "new"
    /\ st_media = "none"
    /\ st_threads = {}
    /\ st_ch = [c \in Channels |-> 0]
    /\ st_phase = [t \in {"reporter", "pump"} |-> "sleep"]

CallIdle ==
    /\ cl_now = 0
    /\ cl_media_started = FALSE
    /\ cl_closed = FALSE
    /\ cl_last_remote_seen = None
    /\ cl_last_arrival = None
    /\ cl_decoded = FALSE
    /\ cl_rtp_at = 0
    /\ cl_byes = 0
    /\ cl_call_end_msgs = 0
    /\ cl_silent_update = FALSE

FileIdle ==
    /\ ft_assoc = "up"
    /\ ft_outgoing_file = None
    /\ ft_incoming_file = None
    /\ ft_pending_offer = None
    /\ ft_senders = <<>>
    /\ ft_offers = 0
    /\ ft_to_peer = <<>>
    /\ ft_from_peer = <<>>
    /\ ft_peer_pending = None
    /\ ft_seen = {}
    /\ ft_broken = {}
    /\ ft_ui_after_loss = FALSE

LockIdle ==
    /\ lk_at = [conn |-> "start", ui |-> "idle", file |-> "off"]
    /\ lk_pc = None
    /\ lk_inc = None
    /\ lk_chan = 0
    /\ lk_picks = 0
    /\ lk_pending = 0

InboundIdle ==
    /\ in_at = [conn |-> "start", ui |-> "start_listener"]
    /\ in_pc = None
    /\ in_srtp_context = None
    /\ in_listener_ctx = None
    /\ in_receiver_ctx = None
    /\ in_queue = None
    /\ in_delivered = None

RtcpIdle ==
    /\ rc_packet_count = FALSE
    /\ rc_remote_ssrc = FALSE
    /\ rc_exit = None
    /\ rc_ticks = 0
    /\ rc_reports = <<>>
    /\ rc_send_failed = 0

ListenIdle ==
    /\ ls_alive = TRUE
    /\ ls_rounds = 0
    /\ ls_dtls_queue = <<>>
    /\ ls_media_queue = <<>>
    /\ ls_replies = 0
    /\ ls_last = None

StampIdle ==
    /\ ts_sequence_number = 0
    /\ ts_timestamp = 0
    /\ ts_log = <<>>

XferIdle ==
    /\ xf_file = <<>>
    /\ xf_next = 1
    /\ xf_stream1 = <<>>
    /\ xf_stream2 = <<>>
    /\ xf_incoming_open = FALSE
    /\ xf_written = <<>>
    /\ xf_skipped = {}

Conns == {1, 2}

\* the names requests can carry: two registered users and a new one
UserNames == {"a", "b", "c"}

\* the server after load_users read a file with the users "a" and "b"
ServerIdle ==
    /\ sv_users = {"a", "b"}
    /\ sv_clients = [u \in UserNames |-> None]
    /\ sv_statuses = [u \in UserNames |->
                         IF u \in {"a", "b"} THEN "DISCONNECTED" ELSE "NONE"]
    /\ sv_calls = [u \in UserNames |-> None]
    /\ sv_auth = [c \in Conns |-> None]
    /\ sv_open = [c \in Conns |-> TRUE]
    /\ sv_todo = [c \in Conns |-> <<>>]
    /\ sv_requests = 0

\* the listener, the transfer and the server at rest but the part named
ExtraIdleExcept(part) ==
    /\ IF part = "listen" THEN TRUE ELSE ListenIdle
    /\ IF part = "stamp" THEN TRUE ELSE StampIdle
    /\ IF part = "xfer" THEN TRUE ELSE XferIdle
    /\ IF part = "server" THEN TRUE ELSE ServerIdle

\* the worker threads and the application at rest but the part named
AppIdleExcept(part) ==
    /\ IF part = "send" THEN TRUE ELSE SendIdle
    /\ IF part = "rtcp" THEN TRUE ELSE RtcpIdle
    /\ IF part = "stop" THEN TRUE ELSE StopIdle
    /\ IF part = "call" THEN TRUE ELSE CallIdle
    /\ IF part = "file" THEN TRUE ELSE FileIdle
    /\ IF part = "lock" THEN TRUE ELSE LockIdle
    /\ IF part = "inbound" THEN TRUE ELSE InboundIdle
    /\ ExtraIdleExcept(part)

\* every part of the state at rest but the one named
IdleExcept(part) ==
    /\ IF part = "pc" THEN TRUE ELSE PcIdle
    /\ IF part = "pair" THEN TRUE ELSE PairIdle
    /\ IF part = "ice" THEN TRUE ELSE IceIdle
    /\ IF part = "sdp" THEN TRUE ELSE SdpCodecIdle
    /\ IF part = "neg" THEN TRUE ELSE NegIdle
    /\ IF part = "rtp" THEN TRUE ELSE RtpIdle
    /\ IF part = "srtp" THEN TRUE ELSE SrtpIdle
    /\ AppIdleExcept(part)

Init == InitPc /\ IdleExcept("pc")

Next ==
    \/ create_offer
    \/ process_offer
    \/ set_remote_description
    \/ start_connectivity_checks
    \/ check_result
    \/ start_dtls_handshake
    \/ handshake_would_block
    \/ handshake_failure
    \/ handshake_ok

Spec == Init /\ [][Next]_vars


(***************************************************************************)
(* SpecPair: the pair priority of ice/connectivity.rs as a pure function   *)
(* of the agent's role and the two candidate priorities                    *)
(***************************************************************************)
Priorities == 0..((2 ^ PrioBits) - 1)

PairInputs ==
    [is_controlling : BOOLEAN, local : Priorities, remote : Priorities]

\* the u64 sum no longer fits: a build with overflow checks panics, one
\* without wraps
PairPriorityOverflows(g, d) ==
    (2 ^ PrioBits) * Min(g, d) + 2 * Max(g, d) + (IF g > d THEN 1 ELSE 0)
        >= 2 ^ (2 * PrioBits)

\* sort_pairs_by_priority's closure on one pair of an agent with the given
\* role: g and d are taken from the local and the remote candidate, the role
\* is not looked at
compute_pair_priority ==
    /\ pair_input # None
    /\ pair_output = None
    /\ LET g == pair_input[1].local
           d == pair_input[1].remote
       IN \/ pair_output' = Some([panicked |-> FALSE,
                                  value |-> PairPriorityOf(g, d)])
          \/ /\ PairPriorityOverflows(g, d)
             /\ pair_output' = Some([panicked |-> TRUE, value |-> 0])
    /\ UNCHANGED <<pair_input, pcVars, iceVars, moreVars>>

InitPair ==
    /\ pair_input \in { Some(i) : i \in PairInputs }
    /\ pair_output = None
    /\ IdleExcept("pair")

NextPair == compute_pair_priority

SpecPair == InitPair /\ [][NextPair]_vars

(***************************************************************************)
(* SpecIce: a Controlling and a Controlled agent on loopback, one          *)
(* candidate pair each, both inside perform_connectivity_check, with the   *)
(* PeerSocket listener threads reading the same sockets                    *)
(***************************************************************************)
Peers == {"A", "B"}
Other(p) == IF p = "A" THEN "B" ELSE "A"

\* for attempt in 0..3
Attempts == 3

BindingRequest(p, attempt) ==
    [message_type |-> "BindingRequest", transaction_id |-> <<p, attempt>>]
BindingResponse(transaction_id) ==
    [message_type |-> "BindingResponse", transaction_id |-> transaction_id]

\* some thread can act without waiting: a request is about to be sent, or a
\* datagram is queued for a thread blocked in recv_from
Busy ==
    \E p \in Peers :
        \/ chk[p].pc = "send"
        \/ /\ sock[p] # <<>>
           /\ (chk[p].pc = "wait" \/ listener_started[p])

\* create_binding_request_with_transaction + socket.send_to
ice_send_request(p) ==
    /\ chk[p].pc = "send"
    /\ sock' = [sock EXCEPT ![Other(p)] =
                   Append(@, BindingRequest(p, chk[p].attempt))]
    /\ chk' = [chk EXCEPT ![p].pc = "wait"]
    /\ UNCHANGED <<listener_started, connected, pcVars, pairVars, moreVars>>

\* socket.recv_from returned a datagram to the check loop
ice_recv(p) ==
    /\ chk[p].pc = "wait"
    /\ sock[p] # <<>>
    /\ LET msg == Head(sock[p]) IN
       IF msg.message_type = "BindingResponse"
       THEN IF msg.transaction_id = <<p, chk[p].attempt>>
            THEN \* return Ok(true): the pair succeeded and is selected
                 /\ sock' = [sock EXCEPT ![p] = Tail(@)]
                 /\ chk' = [chk EXCEPT ![p].pc = "done"]
                 /\ connected' = [connected EXCEPT ![p] = TRUE]
            ELSE /\ sock' = [sock EXCEPT ![p] = Tail(@)]
                 /\ UNCHANGED <<chk, connected>>
       ELSE \* BindingRequest: answer it
            /\ sock' = [sock EXCEPT ![p] = Tail(@),
                                    ![Other(p)] = Append(@,
                                        BindingResponse(msg.transaction_id))]
            /\ UNCHANGED <<chk, connected>>
    /\ UNCHANGED <<listener_started, pcVars, pairVars, moreVars>>

\* the read timeout of this attempt ran out with nothing to read: next
\* attempt, or Ok(false) after the last and the run ends without a pair
ice_timeout(p) ==
    /\ chk[p].pc = "wait"
    /\ ~Busy
    /\ IF chk[p].attempt + 1 < Attempts
       THEN chk' = [chk EXCEPT ![p].pc = "send", ![p].attempt = @ + 1]
       ELSE chk' = [chk EXCEPT ![p].pc = "done"]
    /\ UNCHANGED <<sock, listener_started, connected, pcVars, pairVars, moreVars>>

\* PeerSocket::listener: recv_from returned the datagram to the listener
\* thread; handle_stun_message answers a request and consumes a response
listener_recv(p) ==
    /\ listener_started[p]
    /\ sock[p] # <<>>
    /\ LET msg == Head(sock[p]) IN
       IF msg.message_type = "BindingRequest"
       THEN sock' = [sock EXCEPT ![p] = Tail(@),
                                 ![Other(p)] = Append(@,
                                     BindingResponse(msg.transaction_id))]
       ELSE sock' = [sock EXCEPT ![p] = Tail(@)]
    /\ UNCHANGED <<chk, listener_started, connected, pcVars, pairVars, moreVars>>

InitIce ==
    /\ sock = [p \in Peers |-> <<>>]
    /\ chk = [p \in Peers |-> [pc |-> "send", attempt |-> 0]]
    /\ listener_started \in [Peers -> BOOLEAN]
    /\ connected = [p \in Peers |-> FALSE]
    /\ IdleExcept("ice")

NextIce ==
    \/ \E p \in Peers : ice_send_request(p)
    \/ \E p \in Peers : ice_recv(p)
    \/ \E p \in Peers : ice_timeout(p)
    \/ \E p \in Peers : listener_recv(p)

SpecIce == InitIce /\ [][NextIce]_vars

(***************************************************************************)
(* SpecSdp: sdp_helper.rs ice_to_sdp, the Display and FromStr of           *)
(* protocols/sdp, and sdp_to_ice_candidates on the result.  A text line is *)
(* its two-character prefix, the key before the first ':' of an attribute  *)
(* and the whitespace-separated tokens that follow; a string that may hold *)
(* whitespace (the fingerprint) is the sequence of its tokens.             *)
(***************************************************************************)
MaxSdpCandidates == 2

Line(prefix, key, tokens) == [prefix |-> prefix, key |-> key, tokens |-> tokens]

\* the attribute keys of sdp_consts::general_consts
ValueAttributeKeys ==
    {"rtpmap", "ptime", "maxptime", "cat", "ice-ufrag", "ice-pwd",
     "candidate", "fingerprint", "group", "msid-semantic"}

\* ice_to_sdp(..).to_string(): version, origin, time, media description,
\* then the attributes in the order they were pushed
ice_to_sdp(agent, fingerprint) ==
    <<Line("v=", "", <<"0">>),
      Line("o=", "", <<"-", "0", "0", "IN", "IP4", "0.0.0.0">>),
      Line("t=", "", <<"0">>),
      Line("m=", "", <<"video", "9", "RTP/SAVP", "96">>),
      Line("a=", "group", <<"BUNDLE", "0">>),
      Line("a=", "msid-semantic", <<"WMS">>),
      Line("a=", "ice-ufrag", <<agent.user_fragment>>),
      Line("a=", "ice-pwd", <<agent.password>>)>>
    \o (IF fingerprint # None
        THEN <<Line("a=", "fingerprint", <<"sha-256">> \o fingerprint[1])>>
        ELSE <<>>)
    \o [i \in 1..Len(agent.local_candidate) |->
          Line("a=", "candidate",
               <<i, 1, "UDP", agent.local_candidate[i].priority,
                 agent.local_candidate[i].address,
                 agent.local_candidate[i].port, "typ",
                 candidate_type_to_typ(agent.local_candidate[i].candidate_type)>>)]

\* value_attribute.rs from_str_candidate
from_str_candidate(parts) ==
    IF Len(parts) < 8 THEN [ok |-> FALSE]
    ELSE IF parts[7] # "typ" THEN [ok |-> FALSE]
    ELSE [ok |-> TRUE, key |-> "candidate",
          value |-> [priority |-> parts[4], address |-> parts[5],
                     port |-> parts[6], typ |-> parts[8]]]

from_str_fingerprint_never(parts) == [ok |-> FALSE]

\* value_attribute.rs from_str_fingerprint
from_str_fingerprint(parts) ==
    IF Len(parts) # 2 THEN [ok |-> FALSE]
    ELSE [ok |-> TRUE, key |-> "fingerprint", value |-> <<parts[2]>>]

\* the text after the ':' taken whole (value.to_string())
Joined(tokens) == IF Len(tokens) = 1 THEN tokens[1] ELSE tokens

\* Attribute::from_str of an "a=key:value" line (ValueAttribute::from_str)
Attribute_from_str(line) ==
    IF line.prefix # "a=" \/ line.key \notin ValueAttributeKeys
    THEN [ok |-> FALSE]
    ELSE IF line.key = "candidate" THEN from_str_candidate(line.tokens)
    ELSE IF line.key = "fingerprint" THEN from_str_fingerprint(line.tokens)
    ELSE [ok |-> TRUE, key |-> line.key, value |-> Joined(line.tokens)]

\* SessionDescription::from_str succeeds
SessionDescription_parses(text) ==
    /\ Len(text) >= 5
    /\ text[1].prefix = "v=" /\ Len(text[1].tokens) = 1
    /\ text[2].prefix = "o=" /\ Len(text[2].tokens) = 6
    /\ text[3].prefix = "t=" /\ Len(text[3].tokens) = 1
    /\ \A i \in 4..Len(text) :
          \/ text[i].prefix = "m=" /\ Len(text[i].tokens) >= 4
          \/ text[i].prefix = "a=" /\ Attribute_from_str(text[i]).ok

IsAttributeLine(line) == line.prefix = "a=" /\ Attribute_from_str(line).ok
IsUfrag(line) == line.key = "ice-ufrag"
IsPwd(line) == line.key = "ice-pwd"
IsFingerprint(line) == line.key = "fingerprint"
IsCandidate(line) == line.key = "candidate"

\* the last attribute of a kind (get_ice_credentials keeps overwriting)
LastValue(lines) ==
    IF lines = <<>> THEN None
    ELSE Some(Attribute_from_str(lines[Len(lines)]).value)

\* the first attribute of a kind (get_fingerprint returns at the first)
FirstValue(lines) ==
    IF lines = <<>> THEN None ELSE Some(Attribute_from_str(lines[1]).value)

\* SessionDescription::from_str, by what the attribute getters find in it
SdpOf(text) ==
    LET attributes == SelectSeq(text, IsAttributeLine)
        cands == SelectSeq(attributes, IsCandidate)
    IN [wellformed |-> SessionDescription_parses(text),
        ufrag |-> LastValue(SelectSeq(attributes, IsUfrag)),
        pwd |-> LastValue(SelectSeq(attributes, IsPwd)),
        fingerprint |-> FirstValue(SelectSeq(attributes, IsFingerprint)),
        candidates |-> [i \in 1..Len(cands) |->
                           Attribute_from_str(cands[i]).value]]

\* the agents and fingerprints given to ice_to_sdp
SdpCandidatePool ==
    {create_host_candidate(0, LocalAddr, 5000),
     create_srflx_candidate(1, PublicAddr, 5000),
     [name |-> <<"relay", 2>>, address |-> "198.51.100.1", port |-> 3478,
      candidate_type |-> "Relay", priority |-> calculate_priority("Relay", 1)]}

SdpCandidateLists ==
    UNION { [1..n -> SdpCandidatePool] : n \in 0..MaxSdpCandidates }

SdpAgents ==
    { [user_fragment |-> "ufragLoc", password |-> "pwdLoc",
       local_candidate |-> lc] : lc \in SdpCandidateLists }

\* None, a hex digest, the string of test_ice_to_sdp_to_ice (it holds a
\* space), the empty string
SdpFingerprints ==
    {None, Some(<<"1F:2E:3D:4C:5B:6A">>),
     Some(<<"a=fingerprint:sha-256", "1F:2E:3D:4C:5B:6A">>), Some(<<>>)}

outsideSdp ==
    <<pcVars, pairVars, iceVars, negVars, mediaVars, appVars>>

\* ice_to_sdp(&agent, fingerprint).to_string()
sdp_render ==
    /\ sdp_agent # None
    /\ sdp_string = None
    /\ sdp_string' = Some(ice_to_sdp(sdp_agent[1], sdp_fingerprint[1]))
    /\ UNCHANGED <<sdp_agent, sdp_fingerprint, sdp_parsed, outsideSdp>>

\* SessionDescription::from_str(&text), then sdp_to_ice_candidates
sdp_parse ==
    /\ sdp_string # None
    /\ sdp_parsed = None
    /\ LET sdp == SdpOf(sdp_string[1])
           parsed == sdp_to_ice_candidates(sdp)
       IN sdp_parsed' = Some(IF sdp.wellformed /\ parsed.ok THEN parsed
                             ELSE [ok |-> FALSE])
    /\ UNCHANGED <<sdp_agent, sdp_fingerprint, sdp_string, outsideSdp>>

InitSdp ==
    /\ sdp_agent \in { Some(a) : a \in SdpAgents }
    /\ sdp_fingerprint \in { Some(f) : f \in SdpFingerprints }
    /\ sdp_string = None
    /\ sdp_parsed = None
    /\ IdleExcept("sdp")

NextSdp == sdp_render \/ sdp_parse

SpecSdp == InitSdp /\ [][NextSdp]_vars

(***************************************************************************)
(* SpecNeg: A (Controlling) calls create_offer, B (Controlled) calls        *)
(* process_offer on the offer text, A calls set_remote_description on the  *)
(* answer text (tests/integration_offer_answer.rs)                         *)
(***************************************************************************)
NegPeers == {"A", "B"}

\* the addresses the two sockets can be bound to
NegAddresses == {"127.0.0.1", LocalAddr}

\* DtlsSession::certificate_fingerprint: upper-case hex pairs joined by ':'
NegFingerprint(p) == IF p = "A" THEN <<"AA:01">> ELSE <<"BB:02">>

\* RtcPeerConnection::new for peer p bound to address
NegNew(p, address, has_session) ==
    [address |-> address, dtls_session |-> has_session,
     user_fragment |-> <<"ufrag", p>>, password |-> <<"pwd", p>>,
     local_candidate |-> <<>>, remote_candidate |-> <<>>,
     host_candidate_registered |-> FALSE,
     local_description |-> None, remote_description |-> None]

\* ensure_host_candidate on a peer record: the socket's address with a port
\* of its own per peer
NegEnsured(c, p, stun) ==
    LET registered ==
          IF c.host_candidate_registered THEN c.local_candidate
          ELSE gather_reflexive_candidates(
                   register_host_candidate(c.local_candidate, c.address,
                       IF p = "A" THEN 5000 ELSE 5001), stun)
    IN [c EXCEPT !.local_candidate = registered,
                 !.host_candidate_registered = TRUE]

\* build_local_description(..): the text of the local SDP
NegLocalText(c, p) ==
    ice_to_sdp([user_fragment |-> c.user_fragment, password |-> c.password,
                local_candidate |-> c.local_candidate],
               IF c.dtls_session THEN Some(NegFingerprint(p)) ELSE None)

\* process_remote_sdp .. set_remote_dtls_fingerprint on a peer record:
\* candidates are added as soon as the text parsed, the description is
\* stored when every step succeeded
NegInstalled(c, text) ==
    LET sdp == SdpOf(text)
        parsed == sdp_to_ice_candidates(sdp)
        result == remote_result(sdp, c.dtls_session)
    IN [c EXCEPT !.remote_candidate =
                     IF sdp.wellformed /\ parsed.ok
                     THEN @ \o parsed.candidates ELSE @,
                 !.remote_description =
                     IF result = "Ok" THEN Some(text) ELSE @]

outsideNeg ==
    <<pcVars, pairVars, iceVars, sdpCodecVars, mediaVars, appVars>>

\* A.create_offer()
neg_create_offer ==
    /\ neg_peer # None
    /\ neg_results = <<>>
    /\ \E stun \in StunAnswers :
          LET c == NegEnsured(neg_peer[1]["A"], "A", stun) IN
          neg_peer' = Some([neg_peer[1] EXCEPT
                       !["A"] = [c EXCEPT !.local_description =
                                              Some(NegLocalText(c, "A"))]])
    /\ neg_results' = <<"Ok">>
    /\ UNCHANGED outsideNeg

\* B.process_offer(&offer)
neg_process_offer ==
    /\ neg_results = <<"Ok">>
    /\ \E stun \in StunAnswers :
          LET offer == neg_peer[1]["A"].local_description[1]
              c == NegEnsured(neg_peer[1]["B"], "B", stun)
              result == remote_result(SdpOf(offer), c.dtls_session)
              d == NegInstalled(c, offer)
          IN /\ neg_peer' = Some([neg_peer[1] EXCEPT
                       !["B"] = IF result = "Ok"
                                THEN [d EXCEPT !.local_description =
                                                  Some(NegLocalText(d, "B"))]
                                ELSE d])
             /\ neg_results' = Append(neg_results, result)
    /\ UNCHANGED outsideNeg

\* A.set_remote_description(&answer)
neg_set_remote_description ==
    /\ neg_results = <<"Ok", "Ok">>
    /\ LET answer == neg_peer[1]["B"].local_description[1]
           c == neg_peer[1]["A"]
       IN /\ neg_peer' = Some([neg_peer[1] EXCEPT
                                  !["A"] = NegInstalled(c, answer)])
          /\ neg_results' = Append(neg_results,
                                   remote_result(SdpOf(answer), c.dtls_session))
    /\ UNCHANGED outsideNeg

InitNeg ==
    /\ neg_peer \in
         { Some([p \in NegPeers |-> NegNew(p, address[p], session[p])]) :
             address \in [NegPeers -> NegAddresses],
             session \in [NegPeers -> BOOLEAN] }
    /\ neg_results = <<>>
    /\ IdleExcept("neg")

NextNeg ==
    \/ neg_create_offer
    \/ neg_process_offer
    \/ neg_set_remote_description

SpecNeg == InitNeg /\ [][NextNeg]_vars

(***************************************************************************)
(* Byte vectors of the video path.  A Vec<u8> is a sequence of items: a    *)
(* literal byte [b |-> 0..255] where the code looks at the value (start    *)
(* codes, NAL headers, FU indicators and FU headers), and a run            *)
(* [nal, from, to] for the bytes from..to of the NAL numbered nal, which   *)
(* the code only copies.  A run never holds a start code (Annex B).        *)
(***************************************************************************)
Lit(v) == [b |-> v]
IsLit(item) == "b" \in DOMAIN item
Run(nal, from, to) == [nal |-> nal, from |-> from, to |-> to]
ItemLen(item) == IF IsLit(item) THEN 1 ELSE item.to - item.from + 1

\* Vec::len()
RECURSIVE ByteLen(_)
ByteLen(bytes) ==
    IF bytes = <<>> THEN 0 ELSE ItemLen(bytes[1]) + ByteLen(Tail(bytes))

\* Vec::extend_from_slice: two runs that continue each other are one run
Cat(a, b) ==
    IF a = <<>> THEN b
    ELSE IF b = <<>> THEN a
    ELSE LET x == a[Len(a)]
             y == b[1]
         IN IF ~IsLit(x) /\ ~IsLit(y) /\ x.nal = y.nal /\ x.to + 1 = y.from
            THEN SubSeq(a, 1, Len(a) - 1) \o <<Run(x.nal, x.from, y.to)>>
                    \o Tail(b)
            ELSE a \o b

\* &bytes[..k]
RECURSIVE Take(_, _)
Take(bytes, k) ==
    IF k <= 0 \/ bytes = <<>> THEN <<>>
    ELSE IF ItemLen(bytes[1]) <= k
         THEN <<bytes[1]>> \o Take(Tail(bytes), k - ItemLen(bytes[1]))
         ELSE <<Run(bytes[1].nal, bytes[1].from, bytes[1].from + k - 1)>>

\* &bytes[k..]
RECURSIVE Drop(_, _)
Drop(bytes, k) ==
    IF k <= 0 \/ bytes = <<>> THEN bytes
    ELSE IF ItemLen(bytes[1]) <= k
         THEN Drop(Tail(bytes), k - ItemLen(bytes[1]))
         ELSE <<Run(bytes[1].nal, bytes[1].from + k, bytes[1].to)>>
                 \o Tail(bytes)

\* slice::chunks(size)
RECURSIVE chunks(_, _)
chunks(bytes, size) ==
    IF bytes = <<>> THEN <<>>
    ELSE <<Take(bytes, size)>> \o chunks(Drop(bytes, size), size)

(***************************************************************************)
(* codec/h264: NAL headers, FU headers, the encoder's helpers              *)
(***************************************************************************)
\* chunks(900) in split_nal, and the `nalu.len() <= 900` of the sender
ChunkSize == 900
MaxSingleNal == 900
\* NaluHeader::new(forbidden, nri, 28): the FU-A payload number
FuAType == 28

NaluHeader_new(forbidden_zero_bit, nri, nalu_type) ==
    [forbidden_zero_bit |-> forbidden_zero_bit, nri |-> nri,
     nalu_type |-> nalu_type]

NaluHeader_write_byte(header) ==
    (IF header.forbidden_zero_bit THEN 128 ELSE 0)
        + (header.nri % 4) * 32 + (header.nalu_type % 32)

NaluHeader_read_byte(byte) ==
    [forbidden_zero_bit |-> (byte \div 128) % 2 # 0,
     nri |-> (byte \div 32) % 4,
     nalu_type |-> byte % 32]

FuHeader_new(start_bit, end_bit, reserved, payload_type) ==
    [start_bit |-> start_bit, end_bit |-> end_bit, reserved |-> reserved,
     payload_type |-> payload_type]

FuHeader_write_byte(fu_header) ==
    (IF fu_header.start_bit THEN 128 ELSE 0)
        + (IF fu_header.end_bit THEN 64 ELSE 0)
        + (IF fu_header.reserved THEN 32 ELSE 0)
        + (fu_header.payload_type % 32)

SingleNalUnitPacket_write_bytes(nalu_header, payload) ==
    <<Lit(NaluHeader_write_byte(nalu_header))>> \o payload

FragmentationUnitTypeA_write_bytes(fu_indicator, fu_header, payload) ==
    <<Lit(NaluHeader_write_byte(fu_indicator)),
      Lit(FuHeader_write_byte(fu_header))>> \o payload

split_nal(bytes) == chunks(bytes, ChunkSize)

StartCode == <<Lit(0), Lit(0), Lit(0), Lit(1)>>

\* the loop of split_by_startcode at position i, and what follows it
RECURSIVE split_scan(_, _, _, _)
split_scan(data, i, start, nalus) ==
    IF i + 3 > Len(data)
    THEN IF start <= Len(data)
         THEN Append(nalus, SubSeq(data, start, Len(data)))
         ELSE nalus
    ELSE IF SubSeq(data, i, i + 3) = StartCode
         THEN split_scan(data, i + 1, i + 4,
                         IF i > start
                         THEN Append(nalus, SubSeq(data, start, i - 1))
                         ELSE nalus)
         ELSE split_scan(data, i + 1, start, nalus)

split_by_startcode(data) == split_scan(data, 1, 1, <<>>)

(***************************************************************************)
(* rtc/rtc_rtp/rtc_rtp_sender.rs (srtp: None)                              *)
(***************************************************************************)
\* sequence_number: u16; timestamp: u32, here a word of TsBits bits
SeqBits == 16
TsBits == 14
\* self.timestamp.wrapping_add(3000)
TicksPerFrame == 3000

SeqMod == 2 ^ SeqBits
TsMod == 2 ^ TsBits

RtpPacket_new(marker, sequence_number, timestamp, payload) ==
    [marker |-> marker, sequence_number |-> sequence_number,
     timestamp |-> timestamp, payload |-> payload]

\* the packet send_single_nalu hands to the socket
send_single_nalu(header, nalu, last_nalu, sequence_number, timestamp) ==
    <<RtpPacket_new(last_nalu, sequence_number, timestamp,
                    SingleNalUnitPacket_write_bytes(header, Drop(nalu, 1)))>>

\* the packets send_fragmented_nalu hands to the socket, in order
send_fragmented_nalu(header, nalu, last_nalu, sequence_number, timestamp) ==
    LET vec_fu_a == split_nal(Drop(nalu, 1))
        total_fu_a == Len(vec_fu_a)
    IN [i \in 1..total_fu_a |->
           LET start == i = 1
               end == i = total_fu_a
               fu_indicator == NaluHeader_new(header.forbidden_zero_bit,
                                              header.nri, FuAType)
               fu_header == FuHeader_new(start, end, FALSE, header.nalu_type)
           IN RtpPacket_new(end /\ last_nalu,
                            (sequence_number + i - 1) % SeqMod, timestamp,
                            FragmentationUnitTypeA_write_bytes(
                                fu_indicator, fu_header, vec_fu_a[i]))]

\* the loop of send_video_payload from NAL n on
RECURSIVE send_nalus(_, _, _, _)
send_nalus(nalus, n, sequence_number, timestamp) ==
    IF n > Len(nalus) THEN <<>>
    ELSE LET nalu == nalus[n]
             nalu_header == NaluHeader_read_byte(nalu[1].b)
             is_last_nalu == n = Len(nalus)
             sent == IF ByteLen(nalu) <= MaxSingleNal
                     THEN send_single_nalu(nalu_header, nalu, is_last_nalu,
                                           sequence_number, timestamp)
                     ELSE send_fragmented_nalu(nalu_header, nalu,
                                               is_last_nalu, sequence_number,
                                               timestamp)
         IN sent \o send_nalus(nalus, n + 1,
                               (sequence_number + Len(sent)) % SeqMod,
                               timestamp)

(***************************************************************************)
(* rtc/jitter_buffer/frame_buffer.rs                                       *)
(***************************************************************************)
FrameBuffer_new == [packets |-> <<>>, marker_received |-> FALSE]

FrameBuffer_push(frame, packet) ==
    [packets |-> Append(frame.packets, packet),
     marker_received |-> frame.marker_received \/ packet.marker]

is_complete(frame) == frame.marker_received /\ frame.packets # <<>>

\* one packet put after the last packet whose key is not greater
RECURSIVE insert_by_key(_, _)
insert_by_key(sorted, packet) ==
    IF sorted = <<>> THEN <<packet>>
    ELSE IF sorted[Len(sorted)].sequence_number <= packet.sequence_number
         THEN Append(sorted, packet)
         ELSE Append(insert_by_key(SubSeq(sorted, 1, Len(sorted) - 1),
                                   packet),
                     sorted[Len(sorted)])

\* packets.sort_by_key(get_sequence_number): stable, by the u16 value
RECURSIVE sort_by_sequence(_)
sort_by_sequence(packets) ==
    IF packets = <<>> THEN <<>>
    ELSE insert_by_key(sort_by_sequence(SubSeq(packets, 1, Len(packets) - 1)),
                       packets[Len(packets)])

\* one round of the loop of to_bytes
to_bytes_step(st, payload) ==
    IF payload = <<>> THEN st
    ELSE IF payload[1].b % 32 # FuAType
    THEN [st EXCEPT !.full_data = Cat(Cat(@, StartCode), payload)]
    ELSE IF ByteLen(payload) < 2 THEN st
    ELSE LET fu_indicator == payload[1].b
             fu_header == payload[2].b
             start == (fu_header \div 128) % 2 # 0
             end == (fu_header \div 64) % 2 # 0
             nal_type == fu_header % 32
             reconstructed_header ==
                 (fu_indicator - (fu_indicator % 32)) + nal_type
             begun ==
                 IF start
                 THEN [full_data |-> Cat(st.full_data, StartCode),
                       fu_construction |-> TRUE,
                       current_fu |-> Cat(<<Lit(reconstructed_header)>>,
                                          Drop(payload, 2))]
                 ELSE IF st.fu_construction
                 THEN [st EXCEPT !.current_fu = Cat(@, Drop(payload, 2))]
                 ELSE st
         IN IF end /\ begun.fu_construction
            THEN [full_data |-> Cat(begun.full_data, begun.current_fu),
                  fu_construction |-> FALSE,
                  current_fu |-> <<>>]
            ELSE begun

RECURSIVE to_bytes_loop(_, _, _)
to_bytes_loop(packets, i, st) ==
    IF i > Len(packets) THEN st.full_data
    ELSE to_bytes_loop(packets, i + 1, to_bytes_step(st, packets[i].payload))

to_bytes(frame) ==
    to_bytes_loop(sort_by_sequence(frame.packets), 1,
                  [full_data |-> <<>>, fu_construction |-> FALSE,
                   current_fu |-> <<>>])

(***************************************************************************)
(* rtc/jitter_buffer/j_buffer.rs                                           *)
(***************************************************************************)
\* ts1.wrapping_sub(ts2) < 0x8000_0000, on words of TsBits bits
is_timestamp_newer(ts1, ts2) == (ts1 - ts2) % TsMod < TsMod \div 2

JitterBuffer_push(frames, packet) ==
    LET timestap == packet.timestamp
        entry == IF timestap \in DOMAIN frames THEN frames[timestap]
                 ELSE FrameBuffer_new
    IN [ts \in DOMAIN frames \cup {timestap} |->
           IF ts = timestap THEN FrameBuffer_push(entry, packet)
           ELSE frames[ts]]

\* a pop that removes no frame
retain_all(frames, last_timestamp) == frames

\* the removal of the frames that are not newer than the last one emitted
retain_newer(frames, last_timestamp) ==
    IF last_timestamp = None THEN frames
    ELSE [ts \in {t \in DOMAIN frames :
                     is_timestamp_newer(t, last_timestamp[1])} |->
             frames[ts]]

\* the fold that looks for the oldest key, over the keys in iteration order
RECURSIVE min_timestamp(_, _, _)
min_timestamp(keys, i, current) ==
    IF i > Len(keys) THEN current
    ELSE min_timestamp(keys, i + 1,
                       IF current = None THEN Some(keys[i])
                       ELSE IF ~is_timestamp_newer(keys[i], current[1])
                            THEN Some(keys[i])
                            ELSE current)

has_incomplete_older(frames, ts) ==
    \E older_ts \in DOMAIN frames :
        ~is_complete(frames[older_ts]) /\ ~is_timestamp_newer(older_ts, ts)

\* the orders in which a HashMap with these keys can iterate
KeyOrders(keys) ==
    {order \in [1..Cardinality(keys) -> keys] :
        \A k \in keys : \E i \in 1..Cardinality(keys) : order[i] = k}

\* JitterBuffer::pop when the keys iterate in the given order: the fields
\* afterwards and the value returned
pop(frames, last_timestamp, keys) ==
    LET kept == retain_newer(frames, last_timestamp)
        nothing == [frames |-> kept, last_timestamp |-> last_timestamp,
                    returned |-> None]
    IN IF DOMAIN frames = {} \/ DOMAIN kept = {} THEN nothing
       ELSE LET ts == min_timestamp(keys, 1, None)[1]
            IN IF has_incomplete_older(kept, ts) THEN nothing
               ELSE IF is_complete(kept[ts])
               THEN [frames |-> [t \in DOMAIN kept \ {ts} |-> kept[t]],
                     last_timestamp |-> Some(ts),
                     returned |-> Some([timestamp |-> ts,
                                        frame |-> kept[ts]])]
               ELSE nothing

(***************************************************************************)
(* The video path: the sender packetises encoded frames, the datagrams     *)
(* arrive in any order, the receiver thread pushes each into the jitter    *)
(* buffer and pops after every push (SpecRx).                              *)
(***************************************************************************)
MaxFrames == 2

outsideRtp ==
    <<pcVars, pairVars, iceVars, sdpCodecVars, negVars, srtpVars, appVars>>

\* one NAL as the encoder writes it: the header byte, then the rest
Nal(id, header, len) ==
    <<Lit(header)>> \o (IF len > 1 THEN <<Run(id, 2, len)>> ELSE <<>>)

\* EncodedBitStream::to_vec(): every NAL after a four-byte start code
RECURSIVE AnnexB(_)
AnnexB(nals) ==
    IF nals = <<>> THEN <<>>
    ELSE StartCode \o nals[1] \o AnnexB(Tail(nals))

\* the frames the camera thread encodes: parameter sets and slices
EncodedFrames ==
    {AnnexB(<<Nal(1, 65, MaxSingleNal)>>),
     AnnexB(<<Nal(2, 65, MaxSingleNal + 1)>>),
     AnnexB(<<Nal(3, 103, 2500)>>),
     AnnexB(<<Nal(4, 103, 10), Nal(5, 104, 5), Nal(6, 101, 902)>>)}

\* RtcRtpSender::send_video_payload
send_video_payload ==
    /\ Len(snd_frames) < MaxFrames
    /\ \E frame_bytes \in EncodedFrames :
          LET nalus == split_by_startcode(frame_bytes)
              sent == send_nalus(nalus, 1, snd_sequence_number, snd_timestamp)
          IN /\ snd_frames' = Append(snd_frames, frame_bytes)
             /\ snd_packets' = snd_packets \o sent
             /\ net' = net \cup
                   (Len(snd_packets) + 1)..(Len(snd_packets) + Len(sent))
             /\ snd_sequence_number' =
                   (snd_sequence_number + Len(sent)) % SeqMod
             /\ snd_timestamp' = (snd_timestamp + TicksPerFrame) % TsMod
    /\ UNCHANGED <<jb_frames, jb_last_timestamp, jb_popped, rx_decoded>>
    /\ UNCHANGED outsideRtp

\* H264VideoType::read_bytes accepts the payload
RtpPacket_read_bytes_ok(packet) ==
    LET nalu_type == NaluHeader_read_byte(packet.payload[1].b).nalu_type
    IN nalu_type \in 1..23 \/ nalu_type = FuAType

\* one round of RtpReceiverThread::run, on any datagram on its way
rtp_receive ==
    \E i \in net :
        /\ net' = net \ {i}
        /\ IF ~RtpPacket_read_bytes_ok(snd_packets[i])
           THEN UNCHANGED <<jb_frames, jb_last_timestamp, jb_popped,
                            rx_decoded>>
           ELSE LET pushed == JitterBuffer_push(jb_frames, snd_packets[i])
                    kept == retain_newer(pushed, jb_last_timestamp)
                IN \E keys \in KeyOrders(DOMAIN kept) :
                      LET after == pop(pushed, jb_last_timestamp, keys)
                      IN /\ jb_frames' = after.frames
                         /\ jb_last_timestamp' = after.last_timestamp
                         /\ IF after.returned = None
                            THEN UNCHANGED <<jb_popped, rx_decoded>>
                            ELSE /\ jb_popped' =
                                       Append(jb_popped,
                                              after.returned[1].timestamp)
                                 /\ rx_decoded' =
                                       Append(rx_decoded,
                                              to_bytes(after.returned[1].frame))
        /\ UNCHANGED <<snd_sequence_number, snd_timestamp, snd_frames,
                       snd_packets>>
        /\ UNCHANGED outsideRtp

\* a sender that has sent for a while: the counters are about to wrap
InitRx ==
    /\ snd_sequence_number \in {0, SeqMod - 2}
    /\ snd_timestamp \in {0, TsMod - TicksPerFrame}
    /\ snd_frames = <<>>
    /\ snd_packets = <<>>
    /\ net = {}
    /\ jb_frames = <<>>
    /\ jb_last_timestamp = None
    /\ jb_popped = <<>>
    /\ rx_decoded = <<>>
    /\ IdleExcept("rtp")

NextRx ==
    \/ send_video_payload
    \/ rtp_receive

SpecRx == InitRx /\ [][NextRx]_vars

(***************************************************************************)
(* The jitter buffer under any sequence of push and pop calls (SpecJb).    *)
(***************************************************************************)
MaxPushes == 4

\* timestamps around the wrap and half a turn apart
JbTimestamps == {0, TicksPerFrame, TsMod \div 2, TsMod - TicksPerFrame}

JbPackets ==
    {RtpPacket_new(marker, 0, timestamp, <<>>) :
        marker \in BOOLEAN, timestamp \in JbTimestamps}

PushCount(frames) ==
    LET RECURSIVE Sum(_)
        Sum(keys) ==
            IF keys = {} THEN 0
            ELSE LET k == CHOOSE x \in keys : TRUE
                 IN Len(frames[k].packets) + Sum(keys \ {k})
    IN Sum(DOMAIN frames)

outsideJb ==
    <<outsideRtp, snd_sequence_number, snd_timestamp, snd_frames,
      snd_packets, net, rx_decoded>>

\* JitterBuffer::push
jb_push ==
    /\ PushCount(jb_frames) + Len(jb_popped) < MaxPushes
    /\ \E packet \in JbPackets :
          jb_frames' = JitterBuffer_push(jb_frames, packet)
    /\ UNCHANGED <<jb_last_timestamp, jb_popped>>
    /\ UNCHANGED outsideJb

\* JitterBuffer::pop
jb_pop ==
    /\ \E keys \in KeyOrders(DOMAIN retain_newer(jb_frames,
                                                 jb_last_timestamp)) :
          LET after == pop(jb_frames, jb_last_timestamp, keys)
          IN /\ jb_frames' = after.frames
             /\ jb_last_timestamp' = after.last_timestamp
             /\ jb_popped' = IF after.returned = None THEN jb_popped
                             ELSE Append(jb_popped,
                                         after.returned[1].timestamp)
    /\ UNCHANGED outsideJb

InitJb ==
    /\ jb_frames = <<>>
    /\ jb_last_timestamp = None
    /\ jb_popped = <<>>
    /\ snd_sequence_number = 0
    /\ snd_timestamp = 0
    /\ snd_frames = <<>>
    /\ snd_packets = <<>>
    /\ net = {}
    /\ rx_decoded = <<>>
    /\ IdleExcept("rtp")

NextJb ==
    \/ jb_push
    \/ jb_pop

SpecJb == InitJb /\ [][NextJb]_vars

(***************************************************************************)
(* crypto/srtp.rs (SpecSrtp)                                               *)
(***************************************************************************)
\* `key_bytes.len() < 16`
MinKeyLen == 16
MaxPayload == 2

\* a ^ b on u8
xor8(a, b) ==
    LET RECURSIVE X(_, _, _)
        X(x, y, n) ==
            IF n = 0 THEN 0
            ELSE (((x % 2) + (y % 2)) % 2) + 2 * X(x \div 2, y \div 2, n - 1)
    IN X(a, b, 8)

u16_to_be_bytes(v) == <<(v \div 256) % 256, v % 256>>
u32_to_be_bytes(v) ==
    <<(v \div 16777216) % 256, (v \div 65536) % 256, (v \div 256) % 256,
      v % 256>>

\* SrtpContext::new keeping the key bytes
SrtpContext_with_key(key_bytes) ==
    IF Len(key_bytes) < MinKeyLen THEN None ELSE Some([key |-> key_bytes])

keystream(ctx, seq, timestamp, len) ==
    LET seed == u32_to_be_bytes(timestamp) \o u16_to_be_bytes(seq) \o ctx.key
        at(i) == seed[(i % Len(seed)) + 1]
    IN [k \in 1..len |->
           LET i == k - 1
           IN xor8(at(i), (at(i + 3) + (i % 256)) % 256)]

protect(ctx, seq, timestamp, payload) ==
    LET ks == keystream(ctx, seq, timestamp, Len(payload))
    IN [i \in 1..Len(payload) |-> xor8(payload[i], ks[i])]

unprotect(ctx, seq, timestamp, cipher_text) ==
    LET ks == keystream(ctx, seq, timestamp, Len(cipher_text))
    IN [i \in 1..Len(cipher_text) |-> xor8(cipher_text[i], ks[i])]

outsideSrtp ==
    <<pcVars, pairVars, iceVars, sdpCodecVars, negVars, rtpVars, appVars>>

\* the key of the unit test, a longer one, and one that is too short
SrtpKeys ==
    {[i \in 1..MinKeyLen |-> 1],
     [i \in 1..(MinKeyLen + 1) |-> (37 * i) % 256],
     [i \in 1..(MinKeyLen - 1) |-> 7]}

SrtpSeqs == {0, 1, 42, 256, 65535}
SrtpTimestamps == {0, 3000, 123456, 16777216}
SrtpBytes == {0, 104, 255}
SrtpPayloads == UNION {[1..n -> SrtpBytes] : n \in 1..MaxPayload}

\* SrtpContext::protect
srtp_protect ==
    /\ srtp_ctx # None
    /\ srtp_sent = None
    /\ \E seq \in SrtpSeqs, timestamp \in SrtpTimestamps,
          payload \in SrtpPayloads :
          srtp_sent' = Some([seq |-> seq, timestamp |-> timestamp,
                             payload |-> payload,
                             cipher |-> protect(srtp_ctx[1], seq, timestamp,
                                                payload)])
    /\ UNCHANGED <<srtp_ctx, srtp_got>>
    /\ UNCHANGED outsideSrtp

\* SrtpContext::unprotect on the cipher text of the last protect
srtp_unprotect ==
    /\ srtp_sent # None
    /\ \E seq \in SrtpSeqs, timestamp \in SrtpTimestamps :
          srtp_got' = Some([seq |-> seq, timestamp |-> timestamp,
                            plain |-> unprotect(srtp_ctx[1], seq, timestamp,
                                                srtp_sent[1].cipher)])
    /\ UNCHANGED <<srtp_ctx, srtp_sent>>
    /\ UNCHANGED outsideSrtp

InitSrtp ==
    /\ \E key_bytes \in SrtpKeys : srtp_ctx = SrtpContext_with_key(key_bytes)
    /\ srtp_sent = None
    /\ srtp_got = None
    /\ IdleExcept("srtp")

NextSrtp ==
    \/ srtp_protect
    \/ srtp_unprotect

SpecSrtp == InitSrtp /\ [][NextSrtp]_vars

(***************************************************************************)
(* worker_thread/rtc_rtp_sender_thread.rs (SpecSend)                       *)
(***************************************************************************)
\* `consecutive_errors > 300` after a failed send, `> 100` on a poisoned lock
MaxSendErrors == 300
MaxLockErrors == 100

outsideApp == <<pcVars, pairVars, iceVars, sdpCodecVars, negVars, mediaVars>>

\* the worker threads and the client application
clientVars == <<sendVars, rtcpVars, stopVars, callVars, fileVars, lockVars,
                inVars>>
outsideSend ==
    <<outsideApp, rtcpVars, stopVars, callVars, fileVars, lockVars, inVars,
      extraVars>>

\* the test that makes run return Err(WorkerError::SendError)
send_limit_passed(consecutive_errors, limit) == consecutive_errors > limit

\* one round of run: a frame is received, the lock is taken and
\* send_video_payload returns Ok
sender_round_ok ==
    /\ sw_exit = None
    /\ ~sw_poisoned
    /\ sw_consecutive_errors' = 0
    /\ sw_send_failures' = 0
    /\ sw_last' = "sent"
    /\ UNCHANGED <<sw_poisoned, sw_exit>>
    /\ UNCHANGED outsideSend

\* one round of run: send_video_payload returns Err
sender_round_failed ==
    /\ sw_exit = None
    /\ ~sw_poisoned
    /\ sw_consecutive_errors' = sw_consecutive_errors + 1
    /\ sw_send_failures' = sw_send_failures + 1
    /\ sw_last' = "failed"
    /\ sw_exit' = IF send_limit_passed(sw_consecutive_errors', MaxSendErrors)
                  THEN Some("Err") ELSE None
    /\ UNCHANGED sw_poisoned
    /\ UNCHANGED outsideSend

\* one round of run: peer_socket.lock() returns Err
sender_round_poisoned ==
    /\ sw_exit = None
    /\ sw_poisoned
    /\ sw_consecutive_errors' = sw_consecutive_errors + 1
    /\ sw_last' = "poisoned"
    /\ sw_exit' = IF send_limit_passed(sw_consecutive_errors', MaxLockErrors)
                  THEN Some("Err") ELSE None
    /\ UNCHANGED <<sw_poisoned, sw_send_failures>>
    /\ UNCHANGED outsideSend

\* another thread holding the PeerSocket mutex panics
socket_lock_poisoned ==
    /\ sw_exit = None
    /\ ~sw_poisoned
    /\ sw_poisoned' = TRUE
    /\ UNCHANGED <<sw_consecutive_errors, sw_exit, sw_send_failures, sw_last>>
    /\ UNCHANGED outsideSend

\* rx_encoded.recv() returns Err: the encoder side is gone
sender_channel_closed ==
    /\ sw_exit = None
    /\ sw_exit' = Some("Ok")
    /\ UNCHANGED <<sw_consecutive_errors, sw_poisoned, sw_send_failures,
                   sw_last>>
    /\ UNCHANGED outsideSend

InitSend == SendIdle /\ IdleExcept("send")

NextSend ==
    \/ sender_round_ok
    \/ sender_round_failed
    \/ sender_round_poisoned
    \/ socket_lock_poisoned
    \/ sender_channel_closed

SpecSend == InitSend /\ [][NextSend]_vars

(***************************************************************************)
(* worker_thread/rtcp_reporter_thread.rs (SpecRtcp)                        *)
(***************************************************************************)
MaxTicks == 4

outsideRtcp ==
    <<outsideApp, sendVars, stopVars, callVars, fileVars, lockVars, inVars,
      extraVars>>

\* `socket.send(&bytes).map_err(|_| WorkerError::SendError)?`
reporter_exit_on(send_ok) == IF send_ok THEN None ELSE Some("Err")

\* the sender and receiver threads update the shared MediaMetrics
metrics_update ==
    /\ rc_exit = None
    /\ \E sent \in BOOLEAN :
          /\ rc_packet_count' = (rc_packet_count \/ sent)
          /\ rc_remote_ssrc' = (rc_remote_ssrc \/ ~sent)
    /\ <<rc_packet_count', rc_remote_ssrc'>> #
          <<rc_packet_count, rc_remote_ssrc>>
    /\ UNCHANGED <<rc_exit, rc_ticks, rc_reports, rc_send_failed>>
    /\ UNCHANGED outsideRtcp

\* one round of run after the sleep: both reports built, then sent
reporter_round ==
    /\ rc_exit = None
    /\ rc_ticks < MaxTicks
    /\ rc_ticks' = rc_ticks + 1
    /\ \E sr_ok \in BOOLEAN, rr_ok \in BOOLEAN :
          LET sender_report == rc_packet_count
              receiver_report == rc_remote_ssrc
              sr_exit == IF sender_report THEN reporter_exit_on(sr_ok)
                         ELSE None
              rr_tried == receiver_report /\ sr_exit = None
              rr_exit == IF rr_tried THEN reporter_exit_on(rr_ok) ELSE sr_exit
          IN /\ rc_reports' =
                   rc_reports
                      \o (IF sender_report /\ sr_ok THEN <<"SR">> ELSE <<>>)
                      \o (IF rr_tried /\ rr_ok THEN <<"RR">> ELSE <<>>)
             /\ rc_send_failed' =
                   rc_send_failed
                      + (IF sender_report /\ ~sr_ok THEN 1 ELSE 0)
                      + (IF rr_tried /\ ~rr_ok THEN 1 ELSE 0)
             /\ rc_exit' = rr_exit
    /\ UNCHANGED <<rc_packet_count, rc_remote_ssrc>>
    /\ UNCHANGED outsideRtcp

\* one round of run: metrics.lock() or peer_socket.lock() returns Err
reporter_lock_failed ==
    /\ rc_exit = None
    /\ rc_ticks < MaxTicks
    /\ rc_ticks' = rc_ticks + 1
    /\ rc_exit' = Some("Err")
    /\ UNCHANGED <<rc_packet_count, rc_remote_ssrc, rc_reports,
                   rc_send_failed>>
    /\ UNCHANGED outsideRtcp

InitRtcp == RtcpIdle /\ IdleExcept("rtcp")

NextRtcp ==
    \/ metrics_update
    \/ reporter_round
    \/ reporter_lock_failed

SpecRtcp == InitRtcp /\ [][NextRtcp]_vars

(***************************************************************************)
(* The threads of a call and how they end (SpecStop, SpecStopFair):        *)
(* worker_thread/worker_media.rs, the worker threads, PeerSocket::listener *)
(* and the connection thread of P2PClient::establish_connection.           *)
(***************************************************************************)
outsideStop ==
    <<outsideApp, sendVars, rtcpVars, callVars, fileVars, lockVars, inVars,
      extraVars>>

\* mpsc::sync_channel(n) of WorkerMedia::start
Capacity ==
    [bgr |-> 1, rgb |-> 3, encoded |-> 1, rtp |-> 3, incoming |-> 8,
     decoded |-> 1]

Pipeline == {"camera", "encoder", "sender", "receiver", "decoder"}
MediaThreads == Pipeline \cup {"reporter"}
ConnectionThreads == {"listener", "pump"}

\* WorkerMedia (rx_preview, rx_decoded, tx_incoming) and the sender kept in
\* P2PClient.media_incoming are alive until stop_media
media_alive == st_media = "running"

full(c) == st_ch[c] >= Capacity[c]

stop_put(ch, c) == [ch EXCEPT ![c] = @ + 1]
stop_take(ch, c) == [ch EXCEPT ![c] = @ - 1]

\* the thread returns from run
thread_exit(t) == st_threads' = st_threads \ {t}

\* WebRTCHandler::start_ice: the socket listener and the connection thread
start_ice ==
    /\ st_conn = "new"
    /\ st_conn' = "up"
    /\ st_threads' = st_threads \cup ConnectionThreads
    /\ UNCHANGED <<st_media, st_ch, st_phase>>
    /\ UNCHANGED outsideStop

\* P2PClient::start_media, WorkerMedia::start
start_media ==
    /\ st_conn = "up"
    /\ st_media = "none"
    /\ st_media' = "running"
    /\ st_threads' = st_threads \cup MediaThreads
    /\ UNCHANGED <<st_conn, st_ch, st_phase>>
    /\ UNCHANGED outsideStop

\* VideoCall::stop_current_call, P2PClient::stop_media: the WorkerMedia is
\* dropped, and with it the preview and decoded receivers
stop_media ==
    /\ st_media = "running"
    /\ st_media' = "stopped"
    /\ st_ch' = [st_ch EXCEPT !["bgr"] = 0, !["decoded"] = 0]
    /\ UNCHANGED <<st_conn, st_threads, st_phase>>
    /\ UNCHANGED outsideStop

\* VideoCall::update: try_recv_local_frame and try_recv_remote_frame
ui_poll ==
    /\ media_alive
    /\ \E c \in {"bgr", "decoded"} :
          /\ st_ch[c] > 0
          /\ st_ch' = stop_take(st_ch, c)
    /\ UNCHANGED <<st_conn, st_media, st_threads, st_phase>>
    /\ UNCHANGED outsideStop

\* CameraThread::run, one round: tx_rgb.send then tx_bgr.send
camera_step ==
    /\ "camera" \in st_threads
    /\ IF "encoder" \notin st_threads
       THEN thread_exit("camera") /\ UNCHANGED st_ch
       ELSE /\ ~full("rgb")
            /\ IF ~media_alive
               THEN thread_exit("camera") /\ st_ch' = stop_put(st_ch, "rgb")
               ELSE /\ ~full("bgr")
                    /\ st_ch' = stop_put(stop_put(st_ch, "rgb"), "bgr")
                    /\ UNCHANGED st_threads
    /\ UNCHANGED <<st_conn, st_media, st_phase>>
    /\ UNCHANGED outsideStop

\* EncoderThread::run, one round: rx_rgb.recv then tx_encoded.send
encoder_step ==
    /\ "encoder" \in st_threads
    /\ IF st_ch["rgb"] = 0
       THEN /\ "camera" \notin st_threads
            /\ thread_exit("encoder")
            /\ UNCHANGED st_ch
       ELSE IF "sender" \notin st_threads
            THEN thread_exit("encoder") /\ st_ch' = stop_take(st_ch, "rgb")
            ELSE /\ ~full("encoded")
                 /\ st_ch' = stop_put(stop_take(st_ch, "rgb"), "encoded")
                 /\ UNCHANGED st_threads
    /\ UNCHANGED <<st_conn, st_media, st_phase>>
    /\ UNCHANGED outsideStop

\* RtpSenderThread::run, one round: rx_encoded.recv then the send
sender_step ==
    /\ "sender" \in st_threads
    /\ IF st_ch["encoded"] = 0
       THEN /\ "encoder" \notin st_threads
            /\ thread_exit("sender")
            /\ UNCHANGED st_ch
       ELSE st_ch' = stop_take(st_ch, "encoded") /\ UNCHANGED st_threads
    /\ UNCHANGED <<st_conn, st_media, st_phase>>
    /\ UNCHANGED outsideStop

\* RtpReceiverThread::run, one round: rx_socket.recv, and tx_decoded.send
\* when the jitter buffer gives a frame
receiver_step ==
    /\ "receiver" \in st_threads
    /\ IF st_ch["incoming"] = 0
       THEN /\ ~media_alive
            /\ thread_exit("receiver")
            /\ UNCHANGED st_ch
       ELSE \E frame \in BOOLEAN :
               IF ~frame
               THEN /\ st_ch' = stop_take(st_ch, "incoming")
                    /\ UNCHANGED st_threads
               ELSE IF "decoder" \notin st_threads
                    THEN /\ thread_exit("receiver")
                         /\ st_ch' = stop_take(st_ch, "incoming")
                    ELSE /\ ~full("rtp")
                         /\ st_ch' =
                               stop_put(stop_take(st_ch, "incoming"), "rtp")
                         /\ UNCHANGED st_threads
    /\ UNCHANGED <<st_conn, st_media, st_phase>>
    /\ UNCHANGED outsideStop

\* DecodeThread::run, one round: rx_encoded.recv then tx_frame.send
decoder_step ==
    /\ "decoder" \in st_threads
    /\ IF st_ch["rtp"] = 0
       THEN /\ "receiver" \notin st_threads
            /\ thread_exit("decoder")
            /\ UNCHANGED st_ch
       ELSE IF ~media_alive
            THEN thread_exit("decoder") /\ st_ch' = stop_take(st_ch, "rtp")
            ELSE /\ ~full("decoded")
                 /\ st_ch' = stop_put(stop_take(st_ch, "rtp"), "decoded")
                 /\ UNCHANGED st_threads
    /\ UNCHANGED <<st_conn, st_media, st_phase>>
    /\ UNCHANGED outsideStop

other_phase(ph) == IF ph = "sleep" THEN "work" ELSE "sleep"

\* RtcpReporterThread::run: the sleep, then the reports are sent; the loop
\* reads nothing that stop_media changes
reporter_tick ==
    /\ "reporter" \in st_threads
    /\ st_phase' = [st_phase EXCEPT !["reporter"] = other_phase(@)]
    /\ UNCHANGED <<st_conn, st_media, st_threads, st_ch>>
    /\ UNCHANGED outsideStop

\* RtcpReporterThread::run: a send or a lock fails and `?` returns
reporter_send_failed ==
    /\ "reporter" \in st_threads
    /\ st_phase["reporter"] = "work"
    /\ thread_exit("reporter")
    /\ UNCHANGED <<st_conn, st_media, st_ch, st_phase>>
    /\ UNCHANGED outsideStop

\* PeerSocket::listener gets a media packet, and the thread of
\* P2PClient::start_listener passes it to media_incoming when that is Some
listener_step ==
    /\ "listener" \in st_threads
    /\ media_alive
    /\ ~full("incoming")
    /\ st_ch' = stop_put(st_ch, "incoming")
    /\ UNCHANGED <<st_conn, st_media, st_threads, st_phase>>
    /\ UNCHANGED outsideStop

\* PeerSocket::listener: recv_from fails with an error that is neither
\* Interrupted nor WouldBlock
listener_recv_failed ==
    /\ "listener" \in st_threads
    /\ thread_exit("listener")
    /\ UNCHANGED <<st_conn, st_media, st_ch, st_phase>>
    /\ UNCHANGED outsideStop

\* `pc.sctp_association.is_none() || !pc.has_dtls_session()`: both fields
\* are set in RtcPeerConnection::new and never assigned again
pump_break(association, session) ==
    association = None \/ session = None

\* the SCTP pump loop of the connection thread, one round
pump_step ==
    /\ "pump" \in st_threads
    /\ IF st_phase["pump"] = "work"
          /\ pump_break(Some("SctpAssociation"), Some("DtlsSession"))
       THEN thread_exit("pump") /\ UNCHANGED st_phase
       ELSE /\ st_phase' = [st_phase EXCEPT !["pump"] = other_phase(@)]
            /\ UNCHANGED st_threads
    /\ UNCHANGED <<st_conn, st_media, st_ch>>
    /\ UNCHANGED outsideStop

InitStop == StopIdle /\ IdleExcept("stop")

NextStop ==
    \/ start_ice
    \/ start_media
    \/ stop_media
    \/ ui_poll
    \/ camera_step
    \/ encoder_step
    \/ sender_step
    \/ receiver_step
    \/ decoder_step
    \/ reporter_tick
    \/ reporter_send_failed
    \/ listener_step
    \/ listener_recv_failed
    \/ pump_step

SpecStop == InitStop /\ [][NextStop]_vars

\* every thread that can take a step of its loop is scheduled to take it;
\* the user, the network and the failures of a send are not obliged to act
SpecStopFair ==
    /\ SpecStop
    /\ WF_vars(camera_step)
    /\ WF_vars(encoder_step)
    /\ WF_vars(sender_step)
    /\ WF_vars(receiver_step)
    /\ WF_vars(decoder_step)
    /\ WF_vars(reporter_tick)
    /\ WF_vars(pump_step)

(***************************************************************************)
(* The inactivity watch of the call screen (SpecCall):                     *)
(* RoomRTC/src/ui/screens/video.rs, VideoCall::update.                     *)
(***************************************************************************)
outsideCall ==
    <<outsideApp, sendVars, rtcpVars, stopVars, fileVars, lockVars, inVars,
      extraVars>>

MaxNow == 34
HeartbeatMs == 2000
InactivityMs == 30000

elapsed_ms(since) == (cl_now - since) * 1000

\* MediaMetrics::snapshot: since_last_ms
since_last_ms == IF cl_last_arrival = None THEN None
                 ELSE Some(elapsed_ms(cl_last_arrival[1]))

\* a second passes
clock_tick ==
    /\ cl_now < MaxNow
    /\ cl_now' = cl_now + 1
    /\ UNCHANGED <<cl_media_started, cl_closed, cl_last_remote_seen,
                   cl_last_arrival, cl_decoded, cl_rtp_at, cl_byes,
                   cl_call_end_msgs, cl_silent_update>>
    /\ UNCHANGED outsideCall

\* update while the media is not started: last_remote_seen is cleared, and
\* the media loader's result starts the call
media_ready ==
    /\ ~cl_media_started
    /\ ~cl_closed
    /\ cl_media_started' = TRUE
    /\ cl_last_remote_seen' = None
    /\ cl_rtp_at' = cl_now
    /\ UNCHANGED <<cl_now, cl_closed, cl_last_arrival, cl_decoded, cl_byes,
                   cl_call_end_msgs, cl_silent_update>>
    /\ UNCHANGED outsideCall

\* RtpReceiverThread::run: update_receiver_on_rtp, and a frame may come out
rtp_arrives ==
    /\ cl_media_started
    /\ cl_last_arrival' = Some(cl_now)
    /\ cl_rtp_at' = cl_now
    /\ \E frame \in BOOLEAN : cl_decoded' = (cl_decoded \/ frame)
    /\ UNCHANGED <<cl_now, cl_media_started, cl_closed, cl_last_remote_seen,
                   cl_byes, cl_call_end_msgs, cl_silent_update>>
    /\ UNCHANGED outsideCall

\* VideoCall::update with the media started: the remote frame, the
\* heartbeat, then the gap; send_hangup_signal and stop_current_call
call_update ==
    /\ cl_media_started
    /\ LET seen_frame == IF cl_decoded THEN Some(cl_now)
                         ELSE cl_last_remote_seen
           seen == IF since_last_ms # None /\ since_last_ms[1] < HeartbeatMs
                   THEN Some(cl_now) ELSE seen_frame
           lost == seen # None /\ elapsed_ms(seen[1]) > InactivityMs
       IN /\ cl_decoded' = FALSE
          /\ cl_silent_update' = (elapsed_ms(cl_rtp_at) > InactivityMs)
          /\ IF lost
             THEN /\ \E bye_ok \in BOOLEAN :
                        /\ cl_byes' = cl_byes + (IF bye_ok THEN 1 ELSE 0)
                        /\ cl_call_end_msgs' =
                              cl_call_end_msgs + (IF bye_ok THEN 0 ELSE 1)
                  /\ cl_media_started' = FALSE
                  /\ cl_closed' = TRUE
                  /\ cl_last_remote_seen' = seen
             ELSE /\ cl_last_remote_seen' = seen
                  /\ UNCHANGED <<cl_byes, cl_call_end_msgs, cl_media_started,
                                 cl_closed>>
    /\ UNCHANGED <<cl_now, cl_last_arrival, cl_rtp_at>>
    /\ UNCHANGED outsideCall

InitCall == CallIdle /\ IdleExcept("call")

NextCall ==
    \/ clock_tick
    \/ media_ready
    \/ rtp_arrives
    \/ call_update

SpecCall == InitCall /\ [][NextCall]_vars

(***************************************************************************)
(* The file transfer over SCTP (SpecFile): VideoCall::update in            *)
(* RoomRTC/src/ui/screens/video.rs, with a peer that runs the same code.   *)
(***************************************************************************)
outsideFile ==
    <<outsideApp, sendVars, rtcpVars, stopVars, callVars, lockVars, inVars,
      extraVars>>

MaxOffers == 2
MaxChunks == 2
MaxPeerOffers == 1

\* P2PClient::send_sctp_data: SctpAssociation::send_data fails with
\* "Association not established" once the association is None
send_sctp_data_ok == ft_assoc = "up"

\* what sending a chunk now breaks of the protocol
chunk_breaks ==
    (IF {"offer", "accepted"} \subseteq ft_seen THEN {}
     ELSE {"chunk before accepted offer"})
    \cup (IF "rejected" \in ft_seen THEN {"chunk after reject"} ELSE {})
    \cup (IF "eof" \in ft_seen THEN {"chunk after eof"} ELSE {})

ui_ran == ft_ui_after_loss' = (ft_assoc = "lost")

\* update, stream 999: the picked file is offered
pick_file ==
    /\ ft_offers < MaxOffers
    /\ ft_offers' = ft_offers + 1
    /\ IF send_sctp_data_ok
       THEN /\ ft_to_peer' = Append(ft_to_peer, ft_offers + 1)
            /\ ft_outgoing_file' = Some(ft_offers + 1)
            /\ ft_seen' = ft_seen \cup {"offer"}
       ELSE UNCHANGED <<ft_to_peer, ft_outgoing_file, ft_seen>>
    /\ ui_ran
    /\ UNCHANGED <<ft_assoc, ft_incoming_file, ft_pending_offer, ft_senders,
                   ft_from_peer, ft_peer_pending, ft_broken>>
    /\ UNCHANGED outsideFile

\* the peer's update, stream 1: FileTransferMessage::Offer
peer_recv_offer ==
    /\ ft_assoc = "up"
    /\ ft_to_peer # <<>>
    /\ ft_peer_pending' = Some(Head(ft_to_peer))
    /\ ft_to_peer' = Tail(ft_to_peer)
    /\ UNCHANGED <<ft_assoc, ft_outgoing_file, ft_incoming_file,
                   ft_pending_offer, ft_senders, ft_offers, ft_from_peer,
                   ft_seen, ft_broken, ft_ui_after_loss>>
    /\ UNCHANGED outsideFile

\* the peer's user accepts or rejects in the "Incoming File" window
peer_answer ==
    /\ ft_assoc = "up"
    /\ ft_peer_pending # None
    /\ \E accepted \in BOOLEAN :
          ft_from_peer' =
             Append(ft_from_peer, [type |-> "answer", accepted |-> accepted])
    /\ ft_peer_pending' = None
    /\ UNCHANGED <<ft_assoc, ft_outgoing_file, ft_incoming_file,
                   ft_pending_offer, ft_senders, ft_offers, ft_to_peer,
                   ft_seen, ft_broken, ft_ui_after_loss>>
    /\ UNCHANGED outsideFile

\* the peer offers a file of its own, or ends it with Eof
peer_sends ==
    /\ ft_assoc = "up"
    /\ Len(ft_from_peer) < MaxPeerOffers
    /\ \E type \in {"offer", "eof"} :
          ft_from_peer' = Append(ft_from_peer, [type |-> type])
    /\ UNCHANGED <<ft_assoc, ft_outgoing_file, ft_incoming_file,
                   ft_pending_offer, ft_senders, ft_offers, ft_to_peer,
                   ft_peer_pending, ft_seen, ft_broken, ft_ui_after_loss>>
    /\ UNCHANGED outsideFile

\* update, stream 1: the match on the FileTransferMessage received
recv_control ==
    /\ ft_from_peer # <<>>
    /\ ft_from_peer' = Tail(ft_from_peer)
    /\ LET msg == Head(ft_from_peer)
       IN CASE msg.type = "offer" ->
                 /\ ft_pending_offer' = Some("offer")
                 /\ UNCHANGED <<ft_outgoing_file, ft_incoming_file,
                                ft_senders, ft_seen>>
            [] msg.type = "eof" ->
                 /\ ft_incoming_file' = None
                 /\ UNCHANGED <<ft_outgoing_file, ft_pending_offer,
                                ft_senders, ft_seen>>
            [] msg.type = "answer" /\ msg.accepted ->
                 /\ ft_seen' = ft_seen \cup {"accepted"}
                 /\ IF ft_outgoing_file # None
                    THEN \E left \in 0..MaxChunks :
                            ft_senders' = Append(ft_senders, left)
                    ELSE UNCHANGED ft_senders
                 /\ UNCHANGED <<ft_outgoing_file, ft_incoming_file,
                                ft_pending_offer>>
            [] msg.type = "answer" /\ ~msg.accepted ->
                 /\ ft_seen' = ft_seen \cup {"rejected"}
                 /\ ft_outgoing_file' = None
                 /\ UNCHANGED <<ft_incoming_file, ft_pending_offer,
                                ft_senders>>
    /\ ui_ran
    /\ UNCHANGED <<ft_assoc, ft_offers, ft_to_peer, ft_peer_pending,
                   ft_broken>>
    /\ UNCHANGED outsideFile

\* update, "Incoming File" window: Accept or Reject is clicked
answer_offer ==
    /\ ft_pending_offer # None
    /\ \E accepted \in BOOLEAN :
          ft_incoming_file' = IF accepted THEN Some("file")
                              ELSE ft_incoming_file
    /\ ft_pending_offer' = None
    /\ ui_ran
    /\ UNCHANGED <<ft_assoc, ft_outgoing_file, ft_senders, ft_offers,
                   ft_to_peer, ft_from_peer, ft_peer_pending, ft_seen,
                   ft_broken>>
    /\ UNCHANGED outsideFile

\* the file-sender thread: one chunk is read and sent on stream 2, or the
\* read returns 0 and Eof is sent on stream 1
sender_thread_step ==
    /\ \E t \in 1..Len(ft_senders) :
          /\ ft_senders[t] >= 0
          /\ ft_senders' = [ft_senders EXCEPT ![t] = @ - 1]
          /\ IF ~send_sctp_data_ok
             THEN UNCHANGED <<ft_seen, ft_broken>>
             ELSE IF ft_senders[t] > 0
                  THEN /\ ft_broken' = ft_broken \cup chunk_breaks
                       /\ ft_seen' = ft_seen \cup {"chunk"}
                  ELSE /\ ft_seen' = ft_seen \cup {"eof"}
                       /\ UNCHANGED ft_broken
    /\ UNCHANGED <<ft_assoc, ft_outgoing_file, ft_incoming_file,
                   ft_pending_offer, ft_offers, ft_to_peer, ft_from_peer,
                   ft_peer_pending, ft_ui_after_loss>>
    /\ UNCHANGED outsideFile

\* SctpAssociation::pump_association: Event::AssociationLost
association_lost ==
    /\ ft_assoc = "up"
    /\ ft_assoc' = "lost"
    /\ UNCHANGED <<ft_outgoing_file, ft_incoming_file, ft_pending_offer,
                   ft_senders, ft_offers, ft_to_peer, ft_from_peer,
                   ft_peer_pending, ft_seen, ft_broken, ft_ui_after_loss>>
    /\ UNCHANGED outsideFile

\* update runs with no message to handle and no click
file_update_idle ==
    /\ ft_assoc = "lost"
    /\ ~ft_ui_after_loss
    /\ ui_ran
    /\ UNCHANGED <<ft_assoc, ft_outgoing_file, ft_incoming_file,
                   ft_pending_offer, ft_senders, ft_offers, ft_to_peer,
                   ft_from_peer, ft_peer_pending, ft_seen, ft_broken>>
    /\ UNCHANGED outsideFile

InitFile == FileIdle /\ IdleExcept("file")

NextFile ==
    \/ pick_file
    \/ peer_recv_offer
    \/ peer_answer
    \/ peer_sends
    \/ recv_control
    \/ answer_offer
    \/ sender_thread_step
    \/ association_lost
    \/ file_update_idle

SpecFile == InitFile /\ [][NextFile]_vars

(***************************************************************************)
(* The PeerConnection mutex, the sctp_incoming mutex and the bounded       *)
(* channel between the SCTP pump, the UI and the file sender (SpecLock):   *)
(* RoomRTC/src/client/p2p_client.rs and RoomRTC/src/ui/screens/video.rs.   *)
(***************************************************************************)
outsideLock ==
    <<outsideApp, sendVars, rtcpVars, stopVars, callVars, fileVars, inVars,
      extraVars>>

\* mpsc::sync_channel(100)
IncomingCapacity == 100
MaxIncoming == 2

\* the connection thread up to the pump loop: each of
\* `pc_clone.lock().unwrap().start_connectivity_checks()` and
\* `pc_clone.lock().unwrap().start_dtls_handshake(5000)` runs under the lock
ConnAfter ==
    [start |-> "ice_checks", ice_checks |-> "ice_wait",
     ice_wait |-> "handshake", handshake |-> "pump_sleep"]

\* where a thread sends on the socket, waits for the network, sleeps, or
\* sends on the bounded channel
Waits ==
    {"ice_checks", "handshake", "pump_io", "pump_send", "sctp_send",
     "progress_send"}

\* where a thread is inside a lock() call or a send on the full channel
stuck(t) ==
    \/ lk_at[t] \in {"has_connection", "offer", "chunk"} /\ lk_pc # None
    \/ lk_at[t] \in {"pump_lock_inc", "progress_lock"} /\ lk_inc # None
    \/ lk_at[t] \in {"pump_send", "progress_send"}
          /\ lk_chan >= IncomingCapacity

\* the connection thread: ICE checks, the wait for is_connected, the DTLS
\* handshake
conn_connect ==
    /\ lk_at.conn \in DOMAIN ConnAfter
    /\ LET to == ConnAfter[lk_at.conn]
       IN /\ lk_at' = [lk_at EXCEPT !.conn = to]
          /\ IF to \in {"ice_checks", "handshake"}
             THEN lk_pc = None /\ lk_pc' = Some("conn")
             ELSE lk_pc' = None
    /\ UNCHANGED <<lk_inc, lk_chan, lk_picks, lk_pending>>
    /\ UNCHANGED outsideLock

\* the pump loop: the sleep, `pc_clone.lock()`, dtls_read, poll_output and
\* recv_data into `incoming`; write_dtls_with_retry follows under the lock
pump_begin ==
    /\ lk_at.conn = "pump_sleep"
    /\ lk_pc = None
    /\ lk_pc' = Some("conn")
    /\ lk_at' = [lk_at EXCEPT !.conn = "pump_io"]
    /\ \E n \in 0..MaxIncoming : lk_pending' = n
    /\ UNCHANGED <<lk_inc, lk_chan, lk_picks>>
    /\ UNCHANGED outsideLock

\* the pump loop: `for (stream, payload) in incoming`, sctp_extension.lock();
\* at the end of the round the PeerConnection guard is dropped
pump_next ==
    /\ lk_at.conn = "pump_io"
    /\ IF lk_pending = 0
       THEN /\ lk_pc' = None
            /\ lk_at' = [lk_at EXCEPT !.conn = "pump_sleep"]
       ELSE /\ lk_at' = [lk_at EXCEPT !.conn = "pump_lock_inc"]
            /\ UNCHANGED lk_pc
    /\ UNCHANGED <<lk_inc, lk_chan, lk_picks, lk_pending>>
    /\ UNCHANGED outsideLock

\* sctp_extension.lock() returns the guard
pump_lock_incoming ==
    /\ lk_at.conn = "pump_lock_inc"
    /\ lk_inc = None
    /\ lk_inc' = Some("conn")
    /\ lk_at' = [lk_at EXCEPT !.conn = "pump_send"]
    /\ UNCHANGED <<lk_pc, lk_chan, lk_picks, lk_pending>>
    /\ UNCHANGED outsideLock

\* `tx.send((stream, payload))` returns: the channel had room
pump_send ==
    /\ lk_at.conn = "pump_send"
    /\ lk_chan < IncomingCapacity
    /\ lk_chan' = lk_chan + 1
    /\ lk_pending' = lk_pending - 1
    /\ lk_inc' = None
    /\ lk_at' = [lk_at EXCEPT !.conn = "pump_io"]
    /\ UNCHANGED <<lk_pc, lk_picks>>
    /\ UNCHANGED outsideLock

\* VideoCall::update begins: `client.has_connection()` comes first
ui_update_begin ==
    /\ lk_at.ui = "idle"
    /\ lk_at' = [lk_at EXCEPT !.ui = "has_connection"]
    /\ UNCHANGED <<lk_pc, lk_inc, lk_chan, lk_picks, lk_pending>>
    /\ UNCHANGED outsideLock

\* P2PClient::has_connection: the lock is taken, two flags read, and dropped
ui_has_connection ==
    /\ lk_at.ui = "has_connection"
    /\ lk_pc = None
    /\ lk_at' = [lk_at EXCEPT !.ui = "drain"]
    /\ UNCHANGED <<lk_pc, lk_inc, lk_chan, lk_picks, lk_pending>>
    /\ UNCHANGED outsideLock

\* `while let Ok((stream, payload)) = rx.try_recv()`: stream 999 sends the
\* Offer, the other streams need no lock
ui_try_recv ==
    /\ lk_at.ui = "drain"
    /\ IF lk_chan = 0
       THEN /\ lk_at' = [lk_at EXCEPT !.ui = "idle"]
            /\ UNCHANGED <<lk_chan, lk_picks>>
       ELSE /\ lk_chan' = lk_chan - 1
            /\ \/ /\ lk_picks > 0
                  /\ lk_picks' = lk_picks - 1
                  /\ lk_at' = [lk_at EXCEPT !.ui = "offer"]
               \/ /\ lk_picks < lk_chan
                  /\ UNCHANGED <<lk_picks, lk_at>>
    /\ UNCHANGED <<lk_pc, lk_inc, lk_pending>>
    /\ UNCHANGED outsideLock

\* P2PClient::send_sctp_data: the lock is taken; send_data, poll_output and
\* write_dtls_with_retry follow under it
send_sctp_data_begin(t) ==
    /\ lk_at[t] \in {"offer", "chunk"}
    /\ lk_pc = None
    /\ lk_pc' = Some(t)
    /\ lk_at' = [lk_at EXCEPT ![t] = "sctp_send"]
    /\ UNCHANGED <<lk_inc, lk_chan, lk_picks, lk_pending>>
    /\ UNCHANGED outsideLock

\* P2PClient::send_sctp_data returns
send_sctp_data_end(t) ==
    /\ lk_at[t] = "sctp_send"
    /\ lk_pc' = None
    /\ lk_at' = [lk_at EXCEPT ![t] = IF t = "ui" THEN "drain"
                                     ELSE "progress_lock"]
    /\ UNCHANGED <<lk_inc, lk_chan, lk_picks, lk_pending>>
    /\ UNCHANGED outsideLock

\* Answer{accepted: true}: the file-sender thread is spawned
file_spawn ==
    /\ lk_at.file = "off"
    /\ lk_at' = [lk_at EXCEPT !.file = "chunk"]
    /\ UNCHANGED <<lk_pc, lk_inc, lk_chan, lk_picks, lk_pending>>
    /\ UNCHANGED outsideLock

\* the file-sender thread after a chunk: sctp_inc.lock()
file_progress_lock ==
    /\ lk_at.file = "progress_lock"
    /\ lk_inc = None
    /\ lk_inc' = Some("file")
    /\ lk_at' = [lk_at EXCEPT !.file = "progress_send"]
    /\ UNCHANGED <<lk_pc, lk_chan, lk_picks, lk_pending>>
    /\ UNCHANGED outsideLock

\* `tx.send((998, len_bytes))` returns; the next chunk, or the file is done
file_progress_send ==
    /\ lk_at.file = "progress_send"
    /\ lk_chan < IncomingCapacity
    /\ lk_chan' = lk_chan + 1
    /\ lk_inc' = None
    /\ \E to \in {"chunk", "off"} : lk_at' = [lk_at EXCEPT !.file = to]
    /\ UNCHANGED <<lk_pc, lk_picks, lk_pending>>
    /\ UNCHANGED outsideLock

\* the file picker thread: sctp_inc.lock() and `tx.send((999, path))`
pick_send ==
    /\ lk_inc = None
    /\ lk_picks = 0
    /\ lk_chan < IncomingCapacity
    /\ lk_chan' = lk_chan + 1
    /\ lk_picks' = 1
    /\ UNCHANGED <<lk_at, lk_pc, lk_inc, lk_pending>>
    /\ UNCHANGED outsideLock

InitLock == LockIdle /\ IdleExcept("lock")

NextLock ==
    \/ conn_connect
    \/ pump_begin
    \/ pump_next
    \/ pump_lock_incoming
    \/ pump_send
    \/ ui_update_begin
    \/ ui_has_connection
    \/ ui_try_recv
    \/ \E t \in {"ui", "file"} : send_sctp_data_begin(t)
    \/ \E t \in {"ui", "file"} : send_sctp_data_end(t)
    \/ file_spawn
    \/ file_progress_lock
    \/ file_progress_send
    \/ pick_send

SpecLock == InitLock /\ [][NextLock]_vars

(***************************************************************************)
(* The inbound RTP path (SpecInbound): WebRTCHandler::start_ice, the       *)
(* closure of P2PClient::start_listener and RtpReceiverThread::run.        *)
(***************************************************************************)
outsideInbound ==
    <<outsideApp, sendVars, rtcpVars, stopVars, callVars, fileVars, lockVars,
      extraVars>>

\* the keys export_srtp_keying_material can give
InboundKeys == {k \in SrtpKeys : Len(k) >= MinKeyLen}

\* the connection thread spawned by establish_connection: the ICE checks and
\* the DTLS handshake run under the lock, and start_dtls_handshake ends with
\* set_srtp_key
inbound_connect ==
    /\ in_at.conn \in DOMAIN ConnAfter
    /\ LET to == ConnAfter[in_at.conn]
       IN /\ in_at' = [in_at EXCEPT !.conn = to]
          /\ IF to \in {"ice_checks", "handshake"}
             THEN in_pc = None /\ in_pc' = Some("conn")
             ELSE in_pc' = None
          /\ IF in_at.conn = "handshake"
             THEN \E key \in InboundKeys :
                     in_srtp_context' = SrtpContext_with_key(key)
             ELSE UNCHANGED in_srtp_context
    /\ UNCHANGED <<in_listener_ctx, in_receiver_ctx, in_queue, in_delivered>>
    /\ UNCHANGED outsideInbound

\* start_listener: `self.peer_connection.lock().unwrap().take_receiver()`
take_receiver ==
    /\ in_at.ui = "start_listener"
    /\ in_pc = None
    /\ in_at' = [in_at EXCEPT !.ui = "took_receiver"]
    /\ UNCHANGED <<in_pc, in_srtp_context, in_listener_ctx, in_receiver_ctx,
                   in_queue, in_delivered>>
    /\ UNCHANGED outsideInbound

\* start_listener: `self.peer_connection.lock().unwrap().srtp_context()` is
\* moved into the listener closure, and the thread is spawned
start_listener ==
    /\ in_at.ui = "took_receiver"
    /\ in_pc = None
    /\ in_listener_ctx' = in_srtp_context
    /\ in_at' = [in_at EXCEPT !.ui = "listening"]
    /\ UNCHANGED <<in_pc, in_srtp_context, in_receiver_ctx, in_queue,
                   in_delivered>>
    /\ UNCHANGED outsideInbound

\* update: has_connection() holds, start_media gives the srtp_context to
\* WorkerMedia::start and so to the RtpReceiverThread
inbound_start_media ==
    /\ in_at.ui = "listening"
    /\ in_pc = None
    /\ in_at.conn = "pump_sleep"
    /\ in_srtp_context # None
    /\ in_receiver_ctx' = in_srtp_context
    /\ in_at' = [in_at EXCEPT !.ui = "media"]
    /\ UNCHANGED <<in_pc, in_srtp_context, in_listener_ctx, in_queue,
                   in_delivered>>
    /\ UNCHANGED outsideInbound

\* the peer protects a payload with the shared key; the listener closure
\* gets the packet, unprotects it when it holds a context, and sends it on
\* media_incoming
listener_packet ==
    /\ in_at.ui = "media"
    /\ in_queue = None
    /\ \E seq \in {42, 65535}, timestamp \in {123456},
          payload \in SrtpPayloads :
          LET cipher == protect(in_srtp_context[1], seq, timestamp, payload)
          IN in_queue' =
                Some([seq |-> seq, timestamp |-> timestamp,
                      payload |-> payload,
                      unprotected |-> IF in_listener_ctx = None THEN 0 ELSE 1,
                      bytes |-> IF in_listener_ctx = None THEN cipher
                                ELSE unprotect(in_listener_ctx[1], seq,
                                               timestamp, cipher)])
    /\ UNCHANGED <<in_at, in_pc, in_srtp_context, in_listener_ctx,
                   in_receiver_ctx, in_delivered>>
    /\ UNCHANGED outsideInbound

\* RtpReceiverThread::run: decrypt_rtp when srtp is Some, then jitter.push
receiver_packet ==
    /\ in_queue # None
    /\ LET p == in_queue[1]
       IN in_delivered' =
             IF in_receiver_ctx = None THEN in_queue
             ELSE Some([p EXCEPT
                          !.unprotected = @ + 1,
                          !.bytes = unprotect(in_receiver_ctx[1], p.seq,
                                              p.timestamp, p.bytes)])
    /\ in_queue' = None
    /\ UNCHANGED <<in_at, in_pc, in_srtp_context, in_listener_ctx,
                   in_receiver_ctx>>
    /\ UNCHANGED outsideInbound

InitInbound == InboundIdle /\ IdleExcept("inbound")

NextInbound ==
    \/ inbound_connect
    \/ take_receiver
    \/ start_listener
    \/ inbound_start_media
    \/ listener_packet
    \/ receiver_packet

SpecInbound == InitInbound /\ [][NextInbound]_vars

(***************************************************************************)
(* rtc/socket/peer_socket.rs: the listener thread sorting the datagrams    *)
(* it receives into the DTLS queue and the media receiver queue            *)
(* (SpecListen).  RtcPeerConnection passes Some(dtls_tx), its only caller. *)
(***************************************************************************)
MaxDatagrams == 2

outsideListen ==
    <<outsideApp, clientVars, stampVars, xferVars, serverVars>>

\* first bytes at the edges of the ranges the listener tells apart
FirstBytes == {0, 1, 19, 20, 63, 64, 127, 128, 191, 192}

\* a datagram: its length, its first two bytes and whether bytes 4..8 hold
\* the STUN magic cookie
Datagram(len, first, second, cookie) ==
    [len |-> len, first |-> first, second |-> second, cookie |-> cookie]

Datagrams ==
    {Datagram(0, 0, 0, FALSE)}
    \cup {Datagram(1, b, 0, FALSE) : b \in FirstBytes}
    \cup {Datagram(20, b, 1, FALSE) : b \in FirstBytes}
    \cup {Datagram(20, b, x, TRUE) : b \in {0, 1, 20, 128}, x \in {1, 17}}

\* stun/message.rs MessageType::from_u16
MessageType_from_u16(value) ==
    CASE value = 1 -> "BindingRequest"
      [] value = 257 -> "BindingResponse"
      [] value = 273 -> "BindingErrorResponse"
      [] OTHER -> "Unknown"

\* stun/message.rs StunMessage::parse of a datagram without attributes
StunMessage_parse(data) ==
    IF data.len < 20 THEN [ok |-> FALSE, message_type |-> "Unknown"]
    ELSE IF ~data.cookie THEN [ok |-> FALSE, message_type |-> "Unknown"]
    ELSE [ok |-> TRUE,
          message_type |-> MessageType_from_u16(256 * data.first + data.second)]

\* PeerSocket::handle_stun_message: the value returned and whether a
\* Binding success response was sent back
handle_stun_message(data) ==
    IF data.len < 20 THEN [handled |-> FALSE, replied |-> FALSE]
    ELSE LET message == StunMessage_parse(data)
         IN IF ~message.ok THEN [handled |-> FALSE, replied |-> FALSE]
            ELSE IF message.message_type = "BindingRequest"
            THEN [handled |-> TRUE, replied |-> TRUE]
            ELSE IF message.message_type = "BindingResponse"
            THEN [handled |-> TRUE, replied |-> FALSE]
            ELSE [handled |-> FALSE, replied |-> FALSE]

\* the sink the listener loop picks for a datagram
listener_sink(data) ==
    IF handle_stun_message(data).handled THEN "stun"
    ELSE IF data.len > 0 /\ data.first >= 20 /\ data.first <= 63 THEN "dtls"
    ELSE "media"

\* one round of the listener loop: recv_from returned a datagram
listener_round ==
    /\ ls_alive
    /\ ls_rounds < MaxDatagrams
    /\ \E data \in Datagrams :
          LET sink == listener_sink(data) IN
          /\ ls_rounds' = ls_rounds + 1
          /\ ls_replies' = ls_replies +
                (IF handle_stun_message(data).replied THEN 1 ELSE 0)
          /\ ls_dtls_queue' = IF sink = "dtls"
                              THEN Append(ls_dtls_queue, data)
                              ELSE ls_dtls_queue
          /\ ls_media_queue' = IF sink = "media"
                               THEN Append(ls_media_queue, data)
                               ELSE ls_media_queue
          /\ ls_last' = Some([data |-> data,
                             dtls |-> ls_dtls_queue' # ls_dtls_queue,
                             media |-> ls_media_queue' # ls_media_queue])
    /\ UNCHANGED ls_alive
    /\ UNCHANGED outsideListen

\* recv_from returned an error other than Interrupted and WouldBlock
listener_recv_broke ==
    /\ ls_alive
    /\ ls_alive' = FALSE
    /\ UNCHANGED <<ls_rounds, ls_dtls_queue, ls_media_queue, ls_replies,
                   ls_last>>
    /\ UNCHANGED outsideListen

InitListen == ListenIdle /\ IdleExcept("listen")

NextListen ==
    \/ listener_round
    \/ listener_recv_broke

SpecListen == InitListen /\ [][NextListen]_vars

(***************************************************************************)
(* rtc/rtc_rtp/rtc_rtp_sender.rs: the timestamps of the frames the         *)
(* RtpSenderThread hands to send_video_payload, one after the other, when  *)
(* PeerSocket::send can return an error (SpecStamp).                       *)
(***************************************************************************)
MaxStampFrames == 2

outsideStamp ==
    <<outsideApp, clientVars, listenVars, xferVars, serverVars>>

\* send_video_payload when the socket refuses packet number `failing` of
\* the frame (0: it refuses none): the packets built, the fields afterwards
\* and the Result
send_video_payload_with(frame_bytes, sequence_number, timestamp, failing) ==
    LET nalus == split_by_startcode(frame_bytes)
        all == send_nalus(nalus, 1, sequence_number, timestamp)
        built == IF failing = 0 THEN all ELSE SubSeq(all, 1, failing)
        sent == IF failing = 0 THEN all ELSE SubSeq(all, 1, failing - 1)
    IN [built |-> built,
        sequence_number |-> (sequence_number + Len(sent)) % SeqMod,
        timestamp |-> IF failing = 0
                      THEN (timestamp + TicksPerFrame) % TsMod
                      ELSE timestamp,
        ok |-> failing = 0]

\* one round of RtpSenderThread::run: the frame received from the encoder
\* goes to send_video_payload; an Err is counted and the loop goes on
stamp_round ==
    /\ Len(ts_log) < MaxStampFrames
    /\ \E frame_bytes \in EncodedFrames :
          LET count == Len(send_nalus(split_by_startcode(frame_bytes), 1,
                                      ts_sequence_number, ts_timestamp))
          IN \E failing \in 0..count :
                LET after == send_video_payload_with(
                                 frame_bytes, ts_sequence_number,
                                 ts_timestamp, failing)
                IN /\ ts_sequence_number' = after.sequence_number
                   /\ ts_timestamp' = after.timestamp
                   /\ ts_log' = Append(ts_log,
                         [timestamp |-> ts_timestamp,
                          stamps |-> [i \in 1..Len(after.built) |->
                                         after.built[i].timestamp],
                          ok |-> after.ok])
    /\ UNCHANGED outsideStamp

\* a sender that has sent for a while: the counters are about to wrap
InitStamp ==
    /\ ts_sequence_number \in {0, SeqMod - 2}
    /\ ts_timestamp \in {0, TsMod - TicksPerFrame}
    /\ ts_log = <<>>
    /\ IdleExcept("stamp")

NextStamp == stamp_round

SpecStamp == InitStamp /\ [][NextStamp]_vars

(***************************************************************************)
(* ui/screens/video.rs: one accepted file transfer while the association   *)
(* stays up.  The sender thread sends the chunks on stream 2 and then Eof  *)
(* on stream 1; SCTP keeps the order inside a stream and promises none     *)
(* between streams; the receiver's update handles one message after the    *)
(* other (SpecXfer).                                                       *)
(***************************************************************************)
MaxFileChunks == 3

outsideXfer ==
    <<outsideApp, clientVars, listenVars, stampVars, serverVars>>

\* the sender thread, one chunk: the retry loop around send_sctp_data(2, ..)
\* ends with Ok, or gives up (BufferFull for 200 retries, or another Err)
\* and the outer loop goes on with the next chunk
xfer_send_chunk ==
    /\ xf_next <= Len(xf_file)
    /\ \E sent \in BOOLEAN :
          /\ xf_stream2' = IF sent THEN Append(xf_stream2, xf_file[xf_next])
                           ELSE xf_stream2
          /\ xf_skipped' = IF sent THEN xf_skipped
                           ELSE xf_skipped \cup {xf_next}
    /\ xf_next' = xf_next + 1
    /\ UNCHANGED <<xf_file, xf_stream1, xf_incoming_open, xf_written>>
    /\ UNCHANGED outsideXfer

\* the sender thread after the last chunk: Eof on stream 1
xfer_send_eof ==
    /\ xf_next = Len(xf_file) + 1
    /\ xf_next' = xf_next + 1
    /\ xf_stream1' = Append(xf_stream1, "Eof")
    /\ UNCHANGED <<xf_file, xf_stream2, xf_incoming_open, xf_written,
                   xf_skipped>>
    /\ UNCHANGED outsideXfer

\* the receiver's update, one message of the try_recv loop: stream 2 is
\* written to the open file, Eof on stream 1 closes it
xfer_update ==
    /\ \E stream \in {1, 2} :
          IF stream = 1
          THEN /\ xf_stream1 # <<>>
               /\ xf_stream1' = Tail(xf_stream1)
               /\ xf_incoming_open' = FALSE
               /\ UNCHANGED <<xf_stream2, xf_written>>
          ELSE /\ xf_stream2 # <<>>
               /\ xf_stream2' = Tail(xf_stream2)
               /\ xf_written' = IF xf_incoming_open
                                THEN Append(xf_written, Head(xf_stream2))
                                ELSE xf_written
               /\ UNCHANGED <<xf_stream1, xf_incoming_open>>
    /\ UNCHANGED <<xf_file, xf_next, xf_skipped>>
    /\ UNCHANGED outsideXfer

\* the Offer was accepted on both sides: the receiver's file is open and the
\* sender thread starts at the first chunk
InitXfer ==
    /\ xf_file \in {[i \in 1..n |-> i] : n \in 1..MaxFileChunks}
    /\ xf_next = 1
    /\ xf_stream1 = <<>>
    /\ xf_stream2 = <<>>
    /\ xf_incoming_open = TRUE
    /\ xf_written = <<>>
    /\ xf_skipped = {}
    /\ IdleExcept("xfer")

NextXfer ==
    \/ xfer_send_chunk
    \/ xfer_send_eof
    \/ xfer_update

SpecXfer == InitXfer /\ [][NextXfer]_vars

(***************************************************************************)
(* The signalling server (SpecServer): server/mod.rs handle_client,        *)
(* server/state.rs, server/handlers/auth.rs, presence.rs and signaling.rs. *)
(* Every connection has its own thread.  A handler is a sequence of locked *)
(* sections on the four RwLocks of ServerState; the thread does the first  *)
(* section when it takes the request and leaves the others in sv_todo.     *)
(* Two threads interleave between sections.  Three guards are held from    *)
(* one section into the next: register_user keeps its users write guard    *)
(* while it takes user_statuses, get_user_list keeps its user_statuses     *)
(* read guard while it takes users, and the cleanup of handle_client keeps *)
(* its active_calls write guard while it calls set_user_status.  The       *)
(* messages the handlers send are left out.                                *)
(***************************************************************************)
MaxRequests == 4

outsideServer == <<outsideApp, clientVars, listenVars, stampVars, xferVars>>

\* one locked section a handler has still to go through
Section(op, user, arg) == [op |-> op, user |-> user, arg |-> arg]

\* register_user holds users.write() and is about to take user_statuses
users_write_held ==
    \E c \in Conns :
        sv_todo[c] # <<>> /\ Head(sv_todo[c]).op = "register_status"

\* get_user_list holds user_statuses.read() and is about to take users
statuses_read_held ==
    \E c \in Conns : sv_todo[c] # <<>> /\ Head(sv_todo[c]).op = "list_users"

\* the cleanup of handle_client holds active_calls.write() and is about to
\* call set_user_status
calls_write_held ==
    \E c \in Conns :
        sv_todo[c] # <<>> /\ Head(sv_todo[c]).op = "cleanup_other"

\* the lock the next section of the connection's handler takes is free
can_run(c) ==
    LET op == Head(sv_todo[c]).op
    IN CASE op \in {"status", "register_status", "cleanup_other"} ->
              ~statuses_read_held
         [] op = "list_users" -> ~users_write_held
         [] op \in {"cleanup_calls", "calls_insert", "calls_remove"} ->
              ~calls_write_held
         [] OTHER -> TRUE

\* the thread waits for a lock another thread holds
waits(c) == sv_todo[c] # <<>> /\ ~can_run(c)

\* handle_client read a line and dispatch picked a handler
request(c) ==
    /\ sv_open[c]
    /\ sv_todo[c] = <<>>
    /\ sv_requests < MaxRequests
    /\ sv_requests' = sv_requests + 1

begins(c, todo) == sv_todo' = [sv_todo EXCEPT ![c] = todo]

\* the cleanup at the end of handle_client for an authenticated connection
cleanup(username) ==
    <<Section("clients_remove", username, "-"),
      Section("status", username, "DISCONNECTED"),
      Section("cleanup_calls", username, "-")>>

\* REGISTER: handle_register and ServerState::register_user up to
\* users.insert
handle_register(c) ==
    /\ request(c)
    /\ ~users_write_held
    /\ \E username \in UserNames :
          IF username \in sv_users
          THEN UNCHANGED <<sv_users, sv_todo>>
          ELSE /\ sv_users' = sv_users \cup {username}
               /\ begins(c, <<Section("register_status", username,
                                      "DISCONNECTED")>>)
    /\ UNCHANGED <<sv_clients, sv_statuses, sv_calls, sv_auth, sv_open>>
    /\ UNCHANGED outsideServer

\* GET_USERS: handle_get_users and ServerState::get_user_list up to
\* user_statuses.read()
handle_get_users(c) ==
    /\ request(c)
    /\ begins(c, <<Section("list_users", "-", "-")>>)
    /\ UNCHANGED <<sv_users, sv_clients, sv_statuses, sv_calls, sv_auth,
                   sv_open>>
    /\ UNCHANGED outsideServer

\* LOGIN: handle_login up to the return of ServerState::authenticate
handle_login(c) ==
    /\ request(c)
    /\ ~users_write_held
    /\ \E username \in UserNames, password_ok \in BOOLEAN :
          IF username \in sv_users /\ password_ok
          THEN begins(c, <<Section("login_check", username, "-"),
                           Section("login_insert", username, "-"),
                           Section("status", username, "AVAILABLE")>>)
          ELSE UNCHANGED sv_todo
    /\ UNCHANGED <<sv_users, sv_clients, sv_statuses, sv_calls, sv_auth,
                   sv_open>>
    /\ UNCHANGED outsideServer

\* LOGOUT: handle_logout up to connected_clients.remove; it returns
\* Disconnect, so the cleanup of handle_client follows
handle_logout(c) ==
    /\ request(c)
    /\ sv_open' = [sv_open EXCEPT ![c] = FALSE]
    /\ IF sv_auth[c] = None
       THEN UNCHANGED <<sv_clients, sv_todo>>
       ELSE LET username == sv_auth[c][1]
            IN /\ sv_clients' = [sv_clients EXCEPT ![username] = None]
               /\ begins(c, <<Section("status", username, "DISCONNECTED")>>
                             \o cleanup(username))
    /\ UNCHANGED <<sv_users, sv_statuses, sv_calls, sv_auth>>
    /\ UNCHANGED outsideServer

\* handle_client: read_line returns Ok(0) or an error, the loop ends
disconnect(c) ==
    /\ sv_open[c]
    /\ sv_todo[c] = <<>>
    /\ sv_open' = [sv_open EXCEPT ![c] = FALSE]
    /\ IF sv_auth[c] = None
       THEN UNCHANGED sv_todo
       ELSE begins(c, cleanup(sv_auth[c][1]))
    /\ UNCHANGED <<sv_users, sv_clients, sv_statuses, sv_calls, sv_auth,
                   sv_requests>>
    /\ UNCHANGED outsideServer

\* the accept loop spawns handle_client for a new connection
accept(c) ==
    /\ ~sv_open[c]
    /\ sv_todo[c] = <<>>
    /\ sv_requests < MaxRequests
    /\ sv_requests' = sv_requests + 1
    /\ sv_open' = [sv_open EXCEPT ![c] = TRUE]
    /\ sv_auth' = [sv_auth EXCEPT ![c] = None]
    /\ UNCHANGED <<sv_users, sv_clients, sv_statuses, sv_calls, sv_todo>>
    /\ UNCHANGED outsideServer

\* CALL_OFFER: handle_call_offer up to the test of the callee's status
handle_call_offer(c) ==
    /\ request(c)
    /\ \E to \in UserNames :
          IF sv_auth[c] # None /\ sv_statuses[to] = "AVAILABLE"
          THEN LET caller == sv_auth[c][1]
               IN begins(c, <<Section("offer_clients", to, "-"),
                              Section("status", caller, "BUSY"),
                              Section("status", to, "BUSY"),
                              Section("calls_insert", caller, to)>>)
          ELSE UNCHANGED sv_todo
    /\ UNCHANGED <<sv_users, sv_clients, sv_statuses, sv_calls, sv_auth,
                   sv_open>>
    /\ UNCHANGED outsideServer

\* CALL_ANSWER: handle_call_answer up to the look-up of the caller's sender
handle_call_answer(c) ==
    /\ request(c)
    /\ \E to \in UserNames, accept_call \in BOOLEAN, has_sdp \in BOOLEAN :
          IF sv_auth[c] = None \/ sv_clients[to] = None
          THEN UNCHANGED sv_todo
          ELSE LET callee == sv_auth[c][1]
               IN IF accept_call
                  THEN IF has_sdp
                       THEN begins(c, <<Section("status", callee, "BUSY")>>)
                       ELSE UNCHANGED sv_todo
                  ELSE begins(c, <<Section("status", to, "AVAILABLE"),
                                   Section("status", callee, "AVAILABLE"),
                                   Section("calls_remove", to, callee)>>)
    /\ UNCHANGED <<sv_users, sv_clients, sv_statuses, sv_calls, sv_auth,
                   sv_open>>
    /\ UNCHANGED outsideServer

\* CALL_REJECT: handle_call_reject up to the message to the caller
handle_call_reject(c) ==
    /\ request(c)
    /\ \E to \in UserNames :
          IF sv_auth[c] = None
          THEN UNCHANGED sv_todo
          ELSE LET callee == sv_auth[c][1]
               IN begins(c, <<Section("status", to, "AVAILABLE"),
                              Section("status", callee, "AVAILABLE"),
                              Section("calls_remove", to, callee)>>)
    /\ UNCHANGED <<sv_users, sv_clients, sv_statuses, sv_calls, sv_auth,
                   sv_open>>
    /\ UNCHANGED outsideServer

\* CALL_END: handle_call_end up to the message to the other side
handle_call_end(c) ==
    /\ request(c)
    /\ \E to \in UserNames :
          IF sv_auth[c] = None
          THEN UNCHANGED sv_todo
          ELSE LET username == sv_auth[c][1]
               IN begins(c, <<Section("status", username, "AVAILABLE"),
                              Section("status", to, "AVAILABLE"),
                              Section("calls_remove", username, to)>>)
    /\ UNCHANGED <<sv_users, sv_clients, sv_statuses, sv_calls, sv_auth,
                   sv_open>>
    /\ UNCHANGED outsideServer

\* the thread of the connection takes the lock of its handler's next
\* section, does the section and drops the guard (or keeps it, see above)
server_step(c) ==
    /\ sv_todo[c] # <<>>
    /\ can_run(c)
    /\ LET sec == Head(sv_todo[c])
           rest == Tail(sv_todo[c])
           other == sv_calls[sec.user]
       IN /\ sv_statuses' =
                IF sec.op \in {"status", "register_status", "cleanup_other"}
                THEN [sv_statuses EXCEPT ![sec.user] = sec.arg]
                ELSE sv_statuses
          /\ sv_clients' =
                CASE sec.op = "login_insert" ->
                        [sv_clients EXCEPT ![sec.user] = Some(c)]
                  [] sec.op = "clients_remove" ->
                        [sv_clients EXCEPT ![sec.user] = None]
                  [] OTHER -> sv_clients
          /\ sv_auth' =
                IF sec.op = "login_insert"
                THEN [sv_auth EXCEPT ![c] = Some(sec.user)]
                ELSE sv_auth
          /\ sv_calls' =
                CASE sec.op = "calls_insert" ->
                        [u \in UserNames |->
                            IF u = sec.arg THEN Some(sec.user)
                            ELSE IF u = sec.user THEN Some(sec.arg)
                            ELSE sv_calls[u]]
                  [] sec.op = "calls_remove" ->
                        [u \in UserNames |->
                            IF u \in {sec.user, sec.arg} THEN None
                            ELSE sv_calls[u]]
                  [] sec.op = "cleanup_calls" /\ other # None ->
                        [u \in UserNames |->
                            IF u \in {sec.user, other[1]} THEN None
                            ELSE sv_calls[u]]
                  [] OTHER -> sv_calls
          /\ begins(c,
                CASE sec.op = "login_check" /\ sv_clients[sec.user] # None ->
                        <<>>
                  [] sec.op = "offer_clients" /\ sv_clients[sec.user] = None ->
                        <<>>
                  [] sec.op = "cleanup_calls" /\ other # None ->
                        <<Section("cleanup_other", other[1], "AVAILABLE")>>
                  [] OTHER -> rest)
    /\ UNCHANGED <<sv_users, sv_open, sv_requests>>
    /\ UNCHANGED outsideServer

InitServer == ServerIdle /\ IdleExcept("server")

NextServer ==
    \E c \in Conns :
        \/ handle_register(c)
        \/ handle_get_users(c)
        \/ handle_login(c)
        \/ handle_logout(c)
        \/ handle_call_offer(c)
        \/ handle_call_answer(c)
        \/ handle_call_reject(c)
        \/ handle_call_end(c)
        \/ disconnect(c)
        \/ accept(c)
        \/ server_step(c)

SpecServer == InitServer /\ [][NextServer]_vars

(***************************************************************************)
(* Properties of one peer connection (Spec)                                *)
(***************************************************************************)

\* C1: whenever the connection holds an SRTP context and its DTLS handshake
\* is complete, the peer certificate's digest was compared with the
\* fingerprint of the remote SDP and matched.
C1_KeysOnlyAfterFingerprintMatch ==
    (srtp_context # None /\ ssl_stream) => fp_matched

\* The connection phase, derived from the state: 0 New, 1 Gathering,
\* 2 Connecting, 3 Authenticating, 4 Connected (nothing closes a connection).
ChecksStarted ==
    \/ pc = "checking"
    \/ \E i \in 1..Len(candidate_pairs) : candidate_pairs[i].state # "Waiting"

Phase ==
    IF ssl_stream THEN 4
    ELSE IF selected_pair # None THEN 3
    ELSE IF ChecksStarted THEN 2
    ELSE IF host_candidate_registered THEN 1
    ELSE 0

\* C2: the phase only moves forward, one phase at a time: no step returns to
\* an earlier phase and no step skips one.
C2_PhaseMovesForward ==
    [][Phase' = Phase \/ Phase' = Phase + 1]_vars

C2_ReachedConnected == Phase = 4 /\ pc = "idle"

C4_HandshakeReturnsByTimeout ==
    pc = "handshaking" => hs_elapsed <= hs_timeout

\* C6: once a pair is selected no later step changes or clears it.
C6_SelectedPairNeverChanges ==
    [][selected_pair # None =>
          /\ selected_pair' # None
          /\ SameCandidates(selected_pair[1], selected_pair'[1])]_vars

Descending(pairs) ==
    \A i \in 1..(Len(pairs) - 1) :
        PairPriorityOf(pairs[i].local_candidate.priority,
                       pairs[i].remote_candidate.priority)
        >= PairPriorityOf(pairs[i + 1].local_candidate.priority,
                          pairs[i + 1].remote_candidate.priority)

ChecksSelected ==
    /\ pc = "idle"
    /\ last_call = Returned("start_connectivity_checks", "Ok")

PairCount(i, j) ==
    Cardinality({ k \in 1..Len(candidate_pairs) :
                    /\ candidate_pairs[k].local_candidate = local_candidate[i]
                    /\ candidate_pairs[k].remote_candidate = remote_candidate[j] })

\* C8: once remote candidates are installed, the pair list is the Cartesian
\* product of the local and the remote candidates, each combination once, and
\* until a check has run every pair is Waiting.
C8_PairsAreCartesianProduct ==
    (pc = "idle" /\ remote_candidate # <<>>) =>
        /\ Len(candidate_pairs) = Len(local_candidate) * Len(remote_candidate)
        /\ \A i \in 1..Len(local_candidate), j \in 1..Len(remote_candidate) :
              PairCount(i, j) = 1
        /\ checks_run = 0 =>
              \A k \in 1..Len(candidate_pairs) :
                  candidate_pairs[k].state = "Waiting"

\* C10: create_offer and set_remote_description on a Controlled connection,
\* and process_offer on a Controlling one, return InvalidRole.
C10_WrongRoleIsInvalidRole ==
    /\ (role = "Controlled"
         /\ last_call.op \in {"create_offer", "set_remote_description"})
          => last_call.result = "InvalidRole"
    /\ (role = "Controlling" /\ last_call.op = "process_offer")
          => last_call.result = "InvalidRole"

C10_WrongRoleCalled ==
    /\ role = "Controlled"
    /\ last_call = Returned("set_remote_description", "InvalidRole")
    /\ host_candidate_registered


\* C11: process_offer and set_remote_description, called in the role that
\* may call them, return an Sdp error whenever the remote SDP lacks ice-ufrag,
\* ice-pwd, a fingerprint or every candidate line.
C11_IncompleteSdpIsSdpError ==
    (/\ last_call.op \in {"process_offer", "set_remote_description"}
     /\ last_call.result # "InvalidRole"
     /\ last_call.missing # {})
        => last_call.result = "Sdp"

C11_MissingFingerprintRejected ==
    /\ last_call.op \in {"process_offer", "set_remote_description"}
    /\ last_call.result = "Sdp"
    /\ last_call.missing = {"fingerprint"}
    /\ remote_candidate # <<>>

\* C12: a start_connectivity_checks that returns with an empty pair list, or
\* with every pair Failed, returns an error and leaves selected_pair as it
\* was.
ChecksReturn ==
    /\ pc' = "idle"
    /\ last_call'.op = "start_connectivity_checks"
    /\ pc = "checking" \/ checks_run' # checks_run

AllFailed(pairs) ==
    \A i \in 1..Len(pairs) : pairs[i].state = "Failed"

C12_NoWorkingPairIsError ==
    [][(ChecksReturn /\ AllFailed(candidate_pairs'))
          => /\ last_call'.result = "Ice"
             /\ selected_pair' = selected_pair]_vars

C12_EveryCheckFailed ==
    /\ pc = "idle"
    /\ last_call = Returned("start_connectivity_checks", "Ice")
    /\ candidate_pairs # <<>>
    /\ AllFailed(candidate_pairs)

(***************************************************************************)
(* Properties of the two agents on loopback (SpecIce)                      *)
(***************************************************************************)

\* C5: with both socket listeners running, when both agents' connectivity
\* checks have returned (at most 3 s after they started) both agents are
\* connected, whatever the interleaving of the two check loops and the
\* listener threads.
C5_BothPeersConnect ==
    (/\ \A p \in Peers : listener_started[p]
     /\ \A p \in Peers : chk[p].pc = "done")
        => \A p \in Peers : connected[p]

(***************************************************************************)
(* Properties of the pair priority (SpecPair)                              *)
(***************************************************************************)

\* C9: the pair priority is 2^w * min(G,D) + 2 * max(G,D) + (G > D ? 1 : 0)
\* with G the controlling side's candidate priority and D the controlled
\* side's (w the candidate priority width), so that both agents agree.
C9_PriorityUsesControllingAsG ==
    pair_output # None =>
        LET in == pair_input[1]
            G == IF in.is_controlling THEN in.local ELSE in.remote
            D == IF in.is_controlling THEN in.remote ELSE in.local
        IN /\ ~pair_output[1].panicked
           /\ pair_output[1].value =
                 (2 ^ PrioBits) * Min(G, D) + 2 * Max(G, D)
                    + (IF G > D THEN 1 ELSE 0)


(***************************************************************************)
(* Properties of the SDP rendering and parsing (SpecSdp)                   *)
(***************************************************************************)
SameTransport(parsed, local) ==
    /\ Len(parsed) = Len(local)
    /\ \A i \in 1..Len(local) :
          /\ parsed[i].address = local[i].address
          /\ parsed[i].port = local[i].port
          /\ parsed[i].candidate_type = local[i].candidate_type
          /\ parsed[i].priority = local[i].priority

RoundTripYieldsInputs ==
    /\ sdp_parsed[1].ok
    /\ sdp_parsed[1].creds =
          <<sdp_agent[1].user_fragment, sdp_agent[1].password>>
    /\ SameTransport(sdp_parsed[1].candidates, sdp_agent[1].local_candidate)
    /\ sdp_parsed[1].fingerprint = sdp_fingerprint[1]

PacketsOf(f) ==
    {i \in 1..Len(snd_packets) :
        /\ snd_packets[i].timestamp =
              (snd_packets[1].timestamp + (f - 1) * TicksPerFrame) % TsMod}

\* packet i has been given to the jitter buffer
Received(i) == i \in 1..Len(snd_packets) /\ i \notin net

\* C14: when the packets of a single frame are delivered in any order, each
\* pushed once and a pop attempted after every push, the jitter buffer
\* emits exactly one frame and its bytes equal the encoder's output.
C14_OneFrameAnyOrder ==
    Len(snd_frames) = 1 =>
        /\ Len(rx_decoded) <= 1
        /\ net = {} =>
              /\ Len(rx_decoded) = 1
              /\ rx_decoded[1] = snd_frames[1]

\* one frame was sent, every packet of it was in the frame pop returned
WholeFrameEmitted ==
    /\ Len(snd_frames) = 1
    /\ net = {}
    /\ DOMAIN jb_frames = {}
    /\ Len(rx_decoded) = 1

\* the packets of the frame span the wrap of the sequence number
SpansSeqWrap ==
    \E i \in 1..(Len(snd_packets) - 1) :
        /\ snd_packets[i].sequence_number = SeqMod - 1
        /\ snd_packets[i + 1].sequence_number = 0

\* C17: when the packets of one frame span the 16-bit sequence wrap, the
\* jitter buffer puts seq 0 right after seq 65535, so the frame is
\* reassembled with its packets in sending order: the bytes are the
\* encoder's.
C17_WrapKeepsSendingOrder ==
    (WholeFrameEmitted /\ SpansSeqWrap) => rx_decoded[1] = snd_frames[1]

\* the same for a frame whose sequence numbers do not wrap
WholeFrameDecodedWithoutWrap ==
    (WholeFrameEmitted /\ ~SpansSeqWrap) => rx_decoded[1] = snd_frames[1]

FrameTs(f) == (snd_packets[1].timestamp + (f - 1) * TicksPerFrame) % TsMod

ArrivedInFull(f) == \A i \in PacketsOf(f) : Received(i)

\* frame f waits in the buffer, complete and with every packet of its own
WaitsComplete(f) ==
    /\ FrameTs(f) \in DOMAIN jb_frames
    /\ is_complete(jb_frames[FrameTs(f)])
    /\ Len(jb_frames[FrameTs(f)].packets) = Cardinality(PacketsOf(f))

\* this step emitted a frame and left no older incomplete frame behind
EmittedBeforeNoOlderIncomplete ==
    jb_popped' # jb_popped =>
        \A ts \in DOMAIN jb_frames' :
            \/ is_complete(jb_frames'[ts])
            \/ is_timestamp_newer(ts, jb_popped'[Len(jb_popped')])

\* the next pop returns frame f, however the map iterates
NextPopReturns(f) ==
    \A keys \in KeyOrders(DOMAIN retain_newer(jb_frames, jb_last_timestamp)) :
        LET after == pop(jb_frames, jb_last_timestamp, keys)
        IN /\ after.returned # None
           /\ after.returned[1].timestamp = FrameTs(f)

\* C15: a complete frame is never emitted while a frame with an older
\* timestamp is buffered and incomplete, and once the older frame has
\* arrived in full the newer frame is emitted again (the next pop returns
\* it).
C15_OlderBlocksUntilArrived ==
    /\ [][EmittedBeforeNoOlderIncomplete]_vars
    /\ []((/\ Len(snd_frames) = 2
           /\ ArrivedInFull(1)
           /\ WaitsComplete(2)) => NextPopReturns(2))

\* the first half of C15 alone
NeverEmittedPastIncompleteOlder == [][EmittedBeforeNoOlderIncomplete]_vars

\* the newer frame waited for the older one and is next
NewerResumed ==
    /\ Len(snd_frames) = 2
    /\ ArrivedInFull(1)
    /\ WaitsComplete(2)
    /\ NextPopReturns(2)


(***************************************************************************)
(* Properties of the jitter buffer (SpecJb)                                *)
(***************************************************************************)

\* C16: across any sequence of push and pop calls, the timestamps of
\* consecutively emitted frames never go backwards under the wrapping
\* comparison.
C16_EmittedNeverGoBack ==
    \A i \in 1..(Len(jb_popped) - 1) :
        is_timestamp_newer(jb_popped[i + 1], jb_popped[i])

\* three frames emitted, the timestamps wrapping in between
C16_EmittedAcrossWrap ==
    /\ Len(jb_popped) = 3
    /\ jb_popped[2] < jb_popped[1]
    /\ jb_popped[3] > jb_popped[2]


(***************************************************************************)
(* Properties of the packetisation (SpecRx)                                *)
(***************************************************************************)
IsFuA(packet) == packet.payload[1].b % 32 = FuAType
StartBit(packet) == (packet.payload[2].b \div 128) % 2 = 1
EndBit(packet) == (packet.payload[2].b \div 64) % 2 = 1

\* the first frame given to the sender is one NAL of len bytes
FirstFrameIsOneNal(len) ==
    /\ Len(snd_frames) = 1
    /\ Len(split_by_startcode(snd_frames[1])) = 1
    /\ ByteLen(split_by_startcode(snd_frames[1])[1]) = len

\* C18: a NAL of exactly 900 bytes is sent as one single-NAL RTP packet,
\* and a NAL of 901 bytes is sent as 2 FU-A fragments, the first with
\* start=1, end=0 and the second with start=0, end=1.
C18_Boundary900And901 ==
    /\ FirstFrameIsOneNal(900) =>
          /\ Len(snd_packets) = 1
          /\ ~IsFuA(snd_packets[1])
    /\ FirstFrameIsOneNal(901) =>
          /\ Len(snd_packets) = 2
          /\ \A i \in 1..2 : IsFuA(snd_packets[i])
          /\ StartBit(snd_packets[1]) /\ ~EndBit(snd_packets[1])
          /\ ~StartBit(snd_packets[2]) /\ EndBit(snd_packets[2])

\* the half of C18 about 900 bytes, and 902 bytes in place of 901
Boundary900And902 ==
    /\ FirstFrameIsOneNal(900) =>
          /\ Len(snd_packets) = 1
          /\ ~IsFuA(snd_packets[1])
    /\ (/\ Len(snd_frames) = 1
        /\ Len(split_by_startcode(snd_frames[1])) = 3) =>
          /\ Len(snd_packets) = 4
          /\ \A i \in 3..4 : IsFuA(snd_packets[i])
          /\ StartBit(snd_packets[3]) /\ ~EndBit(snd_packets[3])
          /\ ~StartBit(snd_packets[4]) /\ EndBit(snd_packets[4])


(***************************************************************************)
(* Properties of the SRTP keystream (SpecSrtp)                             *)
(***************************************************************************)

\* C20: for any key of at least 16 bytes, any non-empty payload p and any
\* (seq, ts) different from (seq', ts'), unprotect(seq', ts',
\* protect(seq, ts, p)) differs from p: the keystream is fresh per packet.
C20_OtherPacketDoesNotDecrypt ==
    (/\ srtp_got # None
     /\ <<srtp_got[1].seq, srtp_got[1].timestamp>> #
           <<srtp_sent[1].seq, srtp_sent[1].timestamp>>)
        => srtp_got[1].plain # srtp_sent[1].payload


(***************************************************************************)
(* Properties of the RTP sender worker (SpecSend)                          *)
(***************************************************************************)

\* C21: the RTP sender worker keeps running after a failed send, has its
\* consecutive-failure counter at zero after every successful send, and
\* terminates the pipeline (returns Err) only after about 300 consecutive
\* send failures, never after fewer.
C21_StopsOnlyAfter300Failures ==
    /\ (sw_last = "failed" /\ sw_send_failures < MaxSendErrors) =>
          sw_exit # Some("Err")
    /\ sw_last = "sent" => sw_consecutive_errors = 0
    /\ sw_exit = Some("Err") => sw_send_failures >= MaxSendErrors

\* the same for a worker whose socket mutex is never poisoned
StopsOnlyAfter300FailuresUnpoisoned ==
    ~sw_poisoned => C21_StopsOnlyAfter300Failures


(***************************************************************************)
(* Properties of the RTCP reporter (SpecRtcp)                              *)
(***************************************************************************)

\* C22: a failed RTCP send is logged and dropped: the reporter keeps
\* running (and so still emits Sender/Receiver Reports on later ticks).
C22_FailedSendIsDropped ==
    rc_send_failed > 0 => rc_exit = None


(***************************************************************************)
(* Properties of the threads of a call (SpecStopFair)                      *)
(***************************************************************************)

\* C23: after the call is closed (stop_media), every worker thread - camera,
\* encoder, RTP sender, RTP receiver, decoder, RTCP reporter, socket
\* listener and SCTP pump - eventually observes the closure and exits.
C23_EveryThreadExitsAfterClose ==
    (st_media = "stopped") ~> (st_threads = {})

\* the five threads joined by the channels of WorkerMedia do exit
PipelineExitsAfterClose ==
    (st_media = "stopped") ~> (st_threads \cap Pipeline = {})


(***************************************************************************)
(* Properties of the inactivity watch (SpecCall)                           *)
(***************************************************************************)

\* C24: whenever a call is active and no RTP has been received from the
\* peer for more than 30 s, the connection closes itself and emits exactly
\* one RTCP BYE.
C24_SilenceClosesWithOneBye ==
    cl_silent_update => (cl_closed /\ cl_byes = 1)

\* a BYE is never sent twice
AtMostOneBye == cl_byes <= 1


(***************************************************************************)
(* Properties of the file transfer (SpecFile)                              *)
(***************************************************************************)

\* C25: the sender sends data chunks only after it has sent an Offer and
\* received Answer{accepted: true}, sends Eof only after the last chunk,
\* and sends no chunk after Answer{accepted: false}.
C25_ChunksOnlyWhenAccepted ==
    ft_broken = {}

\* with a single file offered the three orderings are kept
OneOfferKeepsTheOrder ==
    ft_offers <= 1 => ft_broken = {}

\* a chunk is never sent before an Offer and an accepting Answer
NoChunkBeforeAcceptedOffer ==
    "chunk before accepted offer" \notin ft_broken

\* C26: when the SCTP association is lost, any file transfer in progress is
\* reset: the incoming file is closed and the outgoing and pending transfer
\* state is cleared.
C26_LostAssociationResetsTransfer ==
    ft_ui_after_loss =>
        /\ ft_incoming_file = None
        /\ ft_outgoing_file = None
        /\ ft_pending_offer = None


(***************************************************************************)
(* Readers of the UDP socket (SpecIce)                                     *)
(***************************************************************************)

\* C28: at most one thread reads from a connection's UDP socket: once the
\* listener is running, only the listener thread calls recv on it, and the
\* ICE connectivity check does not.
C28_OnlyListenerReadsSocket ==
    [][\A p \in Peers : listener_started[p] => ~ice_recv(p)]_vars


(***************************************************************************)
(* Properties of the locks of one client (SpecLock)                        *)
(***************************************************************************)

\* C27: no thread holds the PeerConnection mutex across a socket send or a
\* channel receive, nor across any other blocking wait such as an ICE
\* check, the DTLS handshake or a send on a full bounded channel.
C27_NoWaitUnderPeerConnectionLock ==
    \A t \in DOMAIN lk_at : lk_pc = Some(t) => lk_at[t] \notin Waits

\* C29: the SCTP pump, the UI thread and the file-sender thread never
\* deadlock: the pump never waits forever on the bounded incoming-message
\* channel or on its mutex while holding the PeerConnection lock that the
\* channel's consumer needs.
C29_PumpAndUiNeverDeadlock ==
    ~(/\ lk_pc = Some("conn")
      /\ stuck("conn")
      /\ stuck("ui")
      /\ (lk_at.file = "off" \/ stuck("file")))


(***************************************************************************)
(* Properties of the inbound RTP path (SpecInbound)                        *)
(***************************************************************************)

\* C30: every inbound protected RTP packet is unprotected exactly once
\* before it reaches the jitter buffer, for every interleaving of listener
\* start-up and DTLS handshake completion.
C30_UnprotectedExactlyOnce ==
    in_delivered # None =>
        /\ in_delivered[1].unprotected = 1
        /\ in_delivered[1].bytes = in_delivered[1].payload

\* a listener started before the handshake ended leaves the packet to the
\* receiver, which unprotects it once
EarlyListenerUnprotectsOnce ==
    (in_delivered # None /\ in_listener_ctx = None) =>
        /\ in_delivered[1].unprotected = 1
        /\ in_delivered[1].bytes = in_delivered[1].payload


(***************************************************************************)
(* Properties of failed negotiation calls (Spec)                           *)
(***************************************************************************)

\* C31: a process_offer or set_remote_description call that returns an
\* error leaves the remote candidates, the candidate pairs, the remote
\* description and the remote credentials as they were before the call.
C31_FailedCallLeavesRemoteState ==
    [][((process_offer \/ set_remote_description) /\ last_call'.result # "Ok")
          => UNCHANGED <<remote_candidate, candidate_pairs,
                         remote_description, remote_credentials>>]_vars

\* what a failed call does keep: the description and the credentials
FailedCallKeepsDescription ==
    [][((process_offer \/ set_remote_description) /\ last_call'.result # "Ok")
          => UNCHANGED <<remote_description, remote_credentials>>]_vars

\* a call refused for the role of the peer adds no candidate
RefusedBeforeParsingAddsNothing ==
    [][((process_offer \/ set_remote_description)
          /\ last_call'.result = "InvalidRole")
          => UNCHANGED <<remote_candidate, candidate_pairs>>]_vars


(***************************************************************************)
(* Late packets in the jitter buffer (SpecJb)                              *)
(***************************************************************************)

\* the timestamp belongs to the frame emitted last or to an older one
late_for(ts, last_timestamp) ==
    /\ last_timestamp # None
    /\ (ts = last_timestamp[1] \/ ~is_timestamp_newer(ts, last_timestamp[1]))

\* C32: once a frame with timestamp T has been emitted, pop discards every
\* entry whose timestamp is T or older without emitting it, and when the
\* only incomplete entries are such late ones and a later frame is
\* complete, pop emits a frame.
C32_LatePacketDiscardedAndHarmless ==
    [][jb_pop =>
         /\ \A ts \in DOMAIN jb_frames' : ~late_for(ts, jb_last_timestamp)
         /\ jb_popped' # jb_popped =>
               ~late_for(jb_popped'[Len(jb_popped')], jb_last_timestamp)
         /\ ((/\ jb_last_timestamp # None
              /\ \E ts \in DOMAIN jb_frames :
                    /\ ~late_for(ts, jb_last_timestamp)
                    /\ is_complete(jb_frames[ts])
              /\ \A ts \in DOMAIN jb_frames :
                    ~late_for(ts, jb_last_timestamp)
                       => is_complete(jb_frames[ts]))
                => jb_popped' # jb_popped)]_vars

\* a packet strictly older than the last emitted frame is discarded by the
\* next pop that emits nothing
OlderPacketIsDiscarded ==
    [][(jb_pop /\ jb_popped' = jb_popped /\ jb_last_timestamp # None) =>
         \A ts \in DOMAIN jb_frames' :
            is_timestamp_newer(ts, jb_last_timestamp[1])]_vars

\* a late packet with the timestamp of the frame emitted last stays in the
\* buffer and a later complete frame waits behind it
LatePacketBlocks ==
    /\ jb_last_timestamp = Some(0)
    /\ jb_popped = <<0>>
    /\ DOMAIN jb_frames = {0, TicksPerFrame}
    /\ ~is_complete(jb_frames[0])
    /\ is_complete(jb_frames[TicksPerFrame])


(***************************************************************************)
(* The camera worker in front of a full channel (SpecStop)                 *)
(***************************************************************************)

\* C33: when a channel after the camera worker is full, the worker does not
\* wait: its round can run (dropping the frame) while the pipeline is up.
C33_CameraDoesNotBlockOnFullChannel ==
    (/\ "camera" \in st_threads
     /\ "encoder" \in st_threads
     /\ media_alive
     /\ (full("rgb") \/ full("bgr")))
        => ENABLED camera_step

\* the camera worker waits in a send: a channel after it is full and its
\* consumer has not taken a frame yet
CameraWaitsOnFullChannel ==
    /\ "camera" \in st_threads
    /\ "encoder" \in st_threads
    /\ media_alive
    /\ full("bgr")
    /\ ~ENABLED camera_step

\* no frame the camera worker captured is dropped: a round of the worker
\* puts one frame in each of its two channels
CameraRoundPutsBothFrames ==
    [][(camera_step /\ "camera" \in st_threads' /\ "encoder" \in st_threads)
          => /\ st_ch'["rgb"] = st_ch["rgb"] + 1
             /\ st_ch'["bgr"] = st_ch["bgr"] + 1]_vars


(***************************************************************************)
(* Properties of the socket listener (SpecListen)                          *)
(***************************************************************************)

\* C34: a datagram is forwarded to the DTLS queue exactly when its first
\* byte is in 20..=63 and to the media receiver queue exactly when it is in
\* 128..=191; a datagram outside both ranges reaches neither queue.
C34_SortedByFirstByte ==
    ls_last # None =>
        LET data == ls_last[1].data
            has(lo, hi) ==
                data.len > 0 /\ data.first >= lo /\ data.first <= hi
        IN /\ ls_last[1].dtls <=> has(20, 63)
           /\ ls_last[1].media <=> has(128, 191)

\* the DTLS half: the DTLS queue gets the datagrams starting with 20..=63
\* and no others, and the media queue gets none of them
DtlsRangeGoesToDtlsOnly ==
    ls_last # None =>
        LET data == ls_last[1].data
        IN /\ ls_last[1].dtls <=>
                 (data.len > 0 /\ data.first >= 20 /\ data.first <= 63)
           /\ ls_last[1].dtls => ~ls_last[1].media

\* a datagram starting with 64 is in the media receiver queue
OutOfRangeReachesMedia ==
    /\ ls_last # None
    /\ ls_last[1].data.first = 64
    /\ ls_last[1].media
    /\ ls_media_queue # <<>>


(***************************************************************************)
(* Properties of the sender's timestamps (SpecStamp)                       *)
(***************************************************************************)

\* C35: all RTP packets of one frame carry the same timestamp, and each
\* frame handed to the sender carries a timestamp 3000 greater (modulo the
\* word) than the frame before it, also after a frame whose transmission
\* failed part-way.
C35_EveryFrameAdvancesTimestamp ==
    /\ \A i \in 1..Len(ts_log) :
          \A k \in 1..Len(ts_log[i].stamps) :
             ts_log[i].stamps[k] = ts_log[i].timestamp
    /\ \A i \in 2..Len(ts_log) :
          ts_log[i].timestamp =
             (ts_log[i - 1].timestamp + TicksPerFrame) % TsMod

\* what holds: one timestamp per frame, and a step of 3000 after every
\* frame that was sent in full
FrameAfterSentFrameAdvances ==
    /\ \A i \in 1..Len(ts_log) :
          \A k \in 1..Len(ts_log[i].stamps) :
             ts_log[i].stamps[k] = ts_log[i].timestamp
    /\ \A i \in 2..Len(ts_log) :
          ts_log[i - 1].ok =>
             ts_log[i].timestamp =
                (ts_log[i - 1].timestamp + TicksPerFrame) % TsMod

\* a frame follows a frame that failed after its first packet and carries
\* the same timestamp as the packets of the failed frame
FrameAfterFailedFrameRepeats ==
    /\ Len(ts_log) = 2
    /\ ~ts_log[1].ok
    /\ Len(ts_log[1].stamps) > 1
    /\ ts_log[2].stamps # <<>>
    /\ ts_log[2].timestamp = ts_log[1].timestamp


(***************************************************************************)
(* Properties of the bytes of a file transfer (SpecXfer)                   *)
(***************************************************************************)

\* the receiver has processed Eof and closed the file
xfer_closed == ~xf_incoming_open

\* C36: when the receiver has processed Eof and closed the file, what it
\* wrote equals the sender's file, in order and with no chunk missing (the
\* association is up throughout).
C36_ClosedFileEqualsSentFile ==
    xfer_closed => xf_written = xf_file

\* the same when every send succeeded: Eof on stream 1 can still be read
\* before chunks waiting on stream 2
EqualWhenNoSendGaveUp ==
    (xfer_closed /\ xf_skipped = {}) => xf_written = xf_file

\* what holds: the chunks written are chunks of the file, in the file's
\* order and none twice
WrittenKeepsFileOrder ==
    /\ \A i \in 1..Len(xf_written) : xf_written[i] \in 1..Len(xf_file)
    /\ \A i, j \in 1..Len(xf_written) :
          i < j => xf_written[i] < xf_written[j]

\* Eof overtook a chunk: the file is closed, no send gave up, and a chunk
\* is still waiting on stream 2
EofOvertookChunk ==
    /\ xfer_closed
    /\ xf_skipped = {}
    /\ xf_stream2 # <<>>
    /\ Len(xf_written) < Len(xf_file)


(***************************************************************************)
(* Properties of the signalling server (SpecServer)                        *)
(***************************************************************************)

\* no handler is running on any connection
ServerQuiet == \A c \in Conns : sv_todo[c] = <<>>

\* C37: the server never deadlocks: whenever a handler waits for a lock,
\* some handler can go on, so that every handler gets its locks and returns.
C37_HandlersNeverDeadlock ==
    \A c \in Conns :
        waits(c) => \E d \in Conns : sv_todo[d] # <<>> /\ can_run(d)

\* register_user holds users and waits for user_statuses while
\* get_user_list holds user_statuses and waits for users
RegisterAndListDeadlock ==
    \E c, d \in Conns :
        /\ c # d
        /\ waits(c) /\ Head(sv_todo[c]).op = "register_status"
        /\ waits(d) /\ Head(sv_todo[d]).op = "list_users"

\* the active_calls guard kept by the cleanup never takes part in a
\* deadlock: a thread waiting for active_calls is waited for by nobody
CallsLockNeverDeadlocks ==
    \A c \in Conns :
        (waits(c) /\ Head(sv_todo[c]).op
                        \in {"cleanup_calls", "calls_insert", "calls_remove"})
           => \E d \in Conns : sv_todo[d] # <<>> /\ can_run(d)

\* C38: active_calls is always symmetric and each user is in at most one
\* call.
C38_CallsSymmetricAndSingle ==
    /\ \A a, b \in UserNames :
          sv_calls[a] = Some(b) => sv_calls[b] = Some(a)
    /\ \A a \in UserNames :
          Cardinality({b \in UserNames : sv_calls[b] = Some(a)}) <= 1

\* what holds of active_calls: nobody is entered without a partner entry
\* being written in the same section, so an entry a -> b whose partner is
\* missing or points elsewhere is one that a later request cut in half
CallsInsertedInPairs ==
    [][\A a \in UserNames :
          (sv_calls[a] = None /\ sv_calls'[a] # None)
             => sv_calls'[sv_calls'[a][1]] = Some(a)]_vars

\* C39: when no handler is running, a registered user's status is
\* DISCONNECTED exactly when the user has no entry in connected_clients.
C39_DisconnectedIffNoClient ==
    ServerQuiet =>
        \A u \in sv_users :
            (sv_statuses[u] = "DISCONNECTED") <=> (sv_clients[u] = None)

\* C40: at most one open connection is authenticated as a given username.
C40_OneConnectionPerUser ==
    \A u \in UserNames :
        Cardinality({c \in Conns : sv_open[c] /\ sv_auth[c] = Some(u)}) <= 1

\* two open connections went through LOGIN for the same user and both are
\* authenticated as that user
TwoConnectionsOneUser ==
    /\ ServerQuiet
    /\ sv_open[1] /\ sv_open[2]
    /\ sv_auth[1] = Some("a")
    /\ sv_auth[2] = Some("a")


\* "a" and "b" are logged in on one connection each, "a" called "b", and
\* a later request of "a" removed the entry of "a" only
CallCutInHalf ==
    /\ ServerQuiet
    /\ sv_auth[1] = Some("a")
    /\ sv_auth[2] = Some("b")
    /\ sv_calls["a"] = None
    /\ sv_calls["b"] = Some("a")

\* "a" is logged in and alone; a CALL_END or CALL_REJECT of "a" naming "b"
\* made the absent "b" AVAILABLE
AbsentUserAvailable ==
    /\ ServerQuiet
    /\ sv_clients["b"] = None
    /\ sv_statuses["b"] = "AVAILABLE"
    /\ sv_auth[2] = None


====
